---- MODULE Spec2Model ----
(***************************************************************************)
(* Model of the crawl-and-normalize core of MCPBidInfo:                    *)
(*   - the persistence gateway  TenderCrawler.save_to_db   (src/app.py)    *)
(*   - the source adapters      crawl_ungm / crawl_sam / crawl_ted         *)
(*   - the orchestrator         crawl_all                                  *)
(*   - the TED query builder    build_query  (ted_ungm_search/ted_client)  *)
(*                                                                         *)
(* Text values are sequences of chunks.  A chunk is a TLA+ string that the *)
(* string operations treat as one unit: a single character wherever an     *)
(* operation looks inside a value (blank, colon, quote), or a run of       *)
(* characters none of which is whitespace, a colon or a quote.  Str(s)     *)
(* concatenates the chunks into the text itself.  NULL is Python's None    *)
(* and SQL NULL; OBJ is a JSON value that is not a string (a dict).        *)
(***************************************************************************)
EXTENDS Integers, Sequences, FiniteSets, TLC

VARIABLES
    tenders,     \* rows of table 'tenders'
    clock,       \* what datetime.utcnow() returns next
    lastSave,    \* the most recent save_to_db call: its argument, result, stamp
    upserted,    \* (site, reference_no) pairs save_to_db has returned True for
    pc,          \* where crawl_all is
    pending,     \* raw records the running record loop has still to take
    count,       \* count / total_saved of the running source crawl
    result,      \* ungm_count, sam_count, ted_count: the counts returned so far
    cur,         \* other locals of the running source crawl
    raisedBy,    \* the exception that left crawl_all, if one did
    lastRaw,     \* the raw record the record loop took last, and what it did
    environ,     \* os.environ as the last step read it, if it read it
    http,        \* the request the last step made, and how it ended
    log,         \* the error messages the last step recorded
    args,        \* the arguments build_query is called with
    query,       \* what build_query returned
    calls,       \* build_query calls made
    it,          \* an iterate_all generator, its server and its consumer
    boot,        \* a _bootstrap_ungm_tokens call and the answers to its GETs
    call         \* another function called on its own: argument, locals, result

storeVars == <<tenders, clock, lastSave, upserted>>

crawlVars == <<pc, pending, count, result, cur, raisedBy, lastRaw, environ, http, log>>

queryVars == <<args, query, calls>>

\* the state of library functions called on their own
libVars == <<args, query, calls, it, boot, call>>

vars == <<tenders, clock, lastSave, upserted, pc, pending, count, result, cur,
          raisedBy, lastRaw, environ, http, log, args, query, calls, it, boot,
          call>>

----------------------------------------------------------------------------
(* Bounds of the model *)

MaxClock == 3    \* save_to_db calls explored in one behaviour
MaxCalls == 2    \* build_query calls explored in one behaviour
MaxAnswers == 3  \* answers a server script spells out
MaxSearches == 4 \* search_once calls explored in one iterate_all

----------------------------------------------------------------------------
(* Values *)

NULL == <<"<null>">>
OBJ  == <<"<object>">>
EMPTY == <<>>

\* bool(value) of a Python value: None and "" are falsy
Truthy(v) == v # NULL /\ v # EMPTY

\* dict.get(key): None when the key is absent
Get(d, k) == IF k \in DOMAIN d THEN d[k] ELSE NULL

----------------------------------------------------------------------------
(* Table 'tenders' *)

KeyCols == {"site", "reference_no"}

DataCols == {"title", "description", "published_date", "deadline_date",
             "organization", "notice_type", "country", "detail_url",
             "last_updated"}

Columns == {"id"} \cup KeyCols \cup DataCols

\* nullable=False
NotNullCols == {"site", "reference_no", "title"}

\* INTEGER PRIMARY KEY: one more than the largest id in the table
NextRowId(table) ==
    IF table = {} THEN 1
    ELSE 1 + CHOOSE m \in {r.id : r \in table} : \A r \in table : r.id <= m

\* as StampedData, but a last_updated the caller supplied is kept
\* (data.setdefault("last_updated", utcnow()))
StampedDataKeepCaller(tender_data, now) ==
    [c \in DOMAIN tender_data \cup {"last_updated"} |->
        IF c \in DOMAIN tender_data THEN tender_data[c] ELSE now]

\* data = dict(tender_data); data["last_updated"] = datetime.utcnow()
StampedData(tender_data, now) ==
    [c \in DOMAIN tender_data \cup {"last_updated"} |->
        IF c = "last_updated" THEN now ELSE tender_data[c]]

\* as UpdateCols, but last_updated is left out of the SET list too
UpdateColsNoStamp(data) == DOMAIN data \ {"site", "reference_no", "last_updated"}

\* update_cols: every supplied column but the key
UpdateCols(data) == DOMAIN data \ {"site", "reference_no"}

\* as ConflictRows, but the conflict target is reference_no alone
ConflictRowsByReference(table, data) ==
    {r \in table : r.reference_no = data.reference_no}

\* the rows that conflict with data on the unique index (site, reference_no)
ConflictRows(table, data) ==
    {r \in table : r.site = data.site /\ r.reference_no = data.reference_no}

\* what the statement can bind and the table accepts: a NOT NULL column is
\* given and not NULL, and no value is a dict
StoreAccepts(data) ==
    /\ \A c \in NotNullCols : c \in DOMAIN data /\ data[c] # NULL
    /\ \A c \in DOMAIN data \ {"last_updated"} : data[c] # OBJ

InsertedRow(data, id) ==
    [c \in Columns |-> IF c = "id" THEN id
                       ELSE IF c \in DOMAIN data THEN data[c] ELSE NULL]

\* as UpdatedRow, but a column the statement supplies as NULL keeps the
\* stored value: SET c = COALESCE(excluded.c, c)
UpdatedRowKeepStoredWhenNull(row, data) ==
    [c \in Columns |-> IF c \in UpdateCols(data) /\ (c = "last_updated" \/ data[c] # NULL)
                       THEN data[c] ELSE row[c]]

UpdatedRow(row, data) ==
    [c \in Columns |-> IF c \in UpdateCols(data) THEN data[c] ELSE row[c]]

\* as Upsert, but the rows of the table are replaced by the row written
UpsertReplacingTable(table, data) == {InsertedRow(data, NextRowId(table))}

\* as Upsert, but the update of a conflicting row also stamps every other
\* row of the table: an UPDATE of last_updated without WHERE
UpsertStampingEveryRow(table, data) ==
    IF ConflictRows(table, data) = {}
    THEN table \cup {InsertedRow(data, NextRowId(table))}
    ELSE {IF r \in ConflictRows(table, data) THEN UpdatedRow(r, data)
          ELSE [r EXCEPT !.last_updated = data.last_updated] : r \in table}

\* INSERT ... ON CONFLICT (site, reference_no) DO UPDATE SET update_cols
Upsert(table, data) ==
    IF ConflictRows(table, data) = {}
    THEN table \cup {InsertedRow(data, NextRowId(table))}
    ELSE {IF r \in ConflictRows(table, data) THEN UpdatedRow(r, data) ELSE r :
             r \in table}

\* the statement executes and commits: the store is reachable and accepts
SaveOk(tender_data, available) ==
    available /\ StoreAccepts(StampedData(tender_data, 0))

\* as SaveResult, but the exception of a failed write is not caught
SaveResultReraise(tender_data, available) ==
    IF SaveOk(tender_data, available) THEN "True" ELSE "raise"

\* what save_to_db gives its caller: True after the commit; False after
\* 'except Exception: session.rollback()'
SaveResult(tender_data, available) ==
    IF SaveOk(tender_data, available) THEN "True" ELSE "False"

KeyOf(data) == <<data.site, data.reference_no>>

RowsOf(table, key) ==
    {r \in table : r.site = key[1] /\ r.reference_no = key[2]}

NoSave == [called |-> FALSE]

\* The whole of save_to_db: stamp, upsert, commit; on any exception roll back.
\* The call takes time: the next utcnow() is later.
SaveToDb(tender_data, available) ==
    LET data == StampedData(tender_data, clock)
        ok   == SaveOk(tender_data, available)
    IN  /\ tenders' = IF ok THEN Upsert(tenders, data) ELSE tenders
        /\ clock' = clock + 1
        /\ upserted' = IF ok THEN upserted \cup {KeyOf(data)} ELSE upserted
        /\ lastSave' = [called |-> TRUE,
                        arg    |-> tender_data,
                        ok     |-> ok,
                        result |-> SaveResult(tender_data, available),
                        stamp  |-> clock,
                        before |-> RowsOf(tenders, KeyOf(data))]

----------------------------------------------------------------------------
(* Canonical records *)

UNGM == <<"UNGM">>
SAM  == <<"SAM">>
TED  == <<"TED">>

\* the tender_data dict every adapter builds
TenderData(site, reference_no, title, description, published_date, deadline_date, organization, notice_type, country, detail_url) ==
    [site |-> site, reference_no |-> reference_no, title |-> title,
     description |-> description, published_date |-> published_date,
     deadline_date |-> deadline_date, organization |-> organization,
     notice_type |-> notice_type, country |-> country,
     detail_url |-> detail_url]

\* a dict with one more key
With(d, k, v) == [c \in DOMAIN d \cup {k} |-> IF c = k THEN v ELSE d[c]]

----------------------------------------------------------------------------
(* Text operations *)

Whitespace == {" ", "\t", "\n"}

RECURSIVE LStrip(_)
LStrip(s) == IF s # <<>> /\ Head(s) \in Whitespace THEN LStrip(Tail(s)) ELSE s

RECURSIVE RStrip(_)
RStrip(s) ==
    IF s # <<>> /\ s[Len(s)] \in Whitespace
    THEN RStrip(SubSeq(s, 1, Len(s) - 1)) ELSE s

\* str.strip()
Strip(s) == RStrip(LStrip(s))

UpperChars == <<"A", "B", "C", "D", "E", "F", "G", "H", "I", "J", "K", "L", "M",
                "N", "O", "P", "Q", "R", "S", "T", "U", "V", "W", "X", "Y", "Z">>
LowerChars == <<"a", "b", "c", "d", "e", "f", "g", "h", "i", "j", "k", "l", "m",
                "n", "o", "p", "q", "r", "s", "t", "u", "v", "w", "x", "y", "z">>

LowerChar(c) ==
    IF \E i \in 1..Len(UpperChars) : UpperChars[i] = c
    THEN LowerChars[CHOOSE i \in 1..Len(UpperChars) : UpperChars[i] = c]
    ELSE c

\* str.lower() of a text given character by character
Lower(s) == [i \in 1..Len(s) |-> LowerChar(s[i])]

\* sub in s
Contains(s, sub) ==
    \E i \in 1..(Len(s) - Len(sub) + 1) : SubSeq(s, i, i + Len(sub) - 1) = sub

\* a variant that keeps a title only when it is a keyword
AnyKeywordIsTitle(keywords, title_lower) ==
    \E i \in 1..Len(keywords) : title_lower = keywords[i]

\* any(keyword in title_lower for keyword in keywords)
AnyKeywordIn(keywords, title_lower) ==
    \E i \in 1..Len(keywords) : Contains(title_lower, keywords[i])

----------------------------------------------------------------------------
(* Dates.  A date text is one of the literals below; a parsed datetime is  *)
(* written as its ISO text.                                                 *)

IsoZ       == <<"2024-01-01T00:00:00Z">>
IsoOffset  == <<"2024-01-01T00:00:00+00:00">>
DayMonYear == <<"01-Jan-2024">>
EpochMs    == <<"/Date(1704067200000)/">>
EpochHuge  == <<"/Date(99999999999999999999999)/">>
NotADate   == <<"soon">>

Jan1Utc   == <<"2024-01-01 00:00:00+00:00">>
Jan1Naive == <<"2024-01-01 00:00:00">>

RAISES == <<"<raises>">>

\* _parse_ungm_date: fromisoformat after Z -> +00:00, then /Date(ms)/ through
\* utcfromtimestamp (only ValueError is caught there: a timestamp beyond
\* time_t raises OverflowError), then the strptime patterns, else None
ParseUngmDate(value) ==
    IF ~Truthy(value) \/ Strip(value) = EMPTY THEN NULL
    ELSE IF Strip(value) \in {IsoZ, IsoOffset} THEN Jan1Utc
    ELSE IF Strip(value) = EpochMs THEN Jan1Naive
    ELSE IF Strip(value) = EpochHuge THEN RAISES
    ELSE IF Strip(value) = DayMonYear THEN Jan1Naive
    ELSE NULL

\* datetime.fromisoformat(text.replace("Z", "+00:00")) inside try/except
\* (crawl_ted, and _parse_iso_datetime of crawl_sam): None when it fails
ParseIsoDate(value) ==
    IF ~Truthy(value) \/ value = OBJ THEN NULL
    ELSE IF value \in {IsoZ, IsoOffset} THEN Jan1Utc
    ELSE NULL

----------------------------------------------------------------------------
(* UNGM JSON records *)

\* str(key).lower() of the keys raw records use; other keys are lower case
KeyLower(k) ==
    CASE k = "Title" -> "title"
      [] k = "noticeTitle" -> "noticetitle"
      [] k = "NoticeTitle" -> "noticetitle"
      [] k = "Name" -> "name"
      [] k = "TenderTitle" -> "tendertitle"
      [] k = "Reference" -> "reference"
      [] k = "referenceNumber" -> "referencenumber"
      [] k = "noticeReference" -> "noticereference"
      [] k = "noticeNumber" -> "noticenumber"
      [] k = "refNo" -> "refno"
      [] k = "referenceNo" -> "referenceno"
      [] k = "shortDescription" -> "shortdescription"
      [] k = "publishedDate" -> "publisheddate"
      [] k = "datePublished" -> "datepublished"
      [] k = "publicationDate" -> "publicationdate"
      [] k = "deadlineDate" -> "deadlinedate"
      [] k = "submissionDeadline" -> "submissiondeadline"
      [] k = "dateDeadline" -> "datedeadline"
      [] k = "agencyName" -> "agencyname"
      [] k = "noticeType" -> "noticetype"
      [] k = "noticeTypeName" -> "noticetypename"
      [] k = "countryName" -> "countryname"
      [] k = "detailUrl" -> "detailurl"
      [] k = "noticeUrl" -> "noticeurl"
      [] k = "detailLink" -> "detaillink"
      [] OTHER -> k

\* _normalise_ungm_value: None for None, for a dict that holds none of the
\* keys it looks into (OBJ), and for blank text; else the stripped text
NormaliseUngmValue(value) ==
    IF value = NULL \/ value = OBJ THEN NULL
    ELSE IF Strip(value) = EMPTY THEN NULL
    ELSE Strip(value)

\* lower_map.get(str(key).lower())
LowerMapGet(record, k) ==
    IF \E key \in DOMAIN record : KeyLower(key) = KeyLower(k)
    THEN record[CHOOSE key \in DOMAIN record : KeyLower(key) = KeyLower(k)]
    ELSE NULL

RECURSIVE ExtractUngmField(_, _)
\* _extract_ungm_field: the first candidate key, looked up as written and
\* then case-insensitively, whose value normalises to non-empty text
ExtractUngmField(record, keys) ==
    IF keys = <<>> THEN NULL
    ELSE LET value == IF Get(record, Head(keys)) # NULL
                      THEN record[Head(keys)]
                      ELSE LowerMapGet(record, Head(keys))
             text  == NormaliseUngmValue(value)
         IN  IF text # NULL THEN text ELSE ExtractUngmField(record, Tail(keys))

UngmTitleKeys == <<"title", "noticeTitle", "notice_title", "Name", "TenderTitle">>
UngmReferenceKeys == <<"reference", "referenceNumber", "reference_number", "noticeReference", "noticeNumber", "refNo", "referenceNo">>
UngmDescriptionKeys == <<"description", "summary", "shortDescription">>
UngmPublishedKeys == <<"published", "publishedDate", "datePublished", "publicationDate">>
UngmDeadlineKeys == <<"deadline", "deadlineDate", "submissionDeadline", "dateDeadline">>
UngmAgencyKeys == <<"agency", "agencyName", "organisation", "organization", "buyer">>
UngmNoticeTypeKeys == <<"noticeType", "noticeTypeName", "type">>
UngmCountryKeys == <<"country", "countryName", "location">>
UngmDetailUrlKeys == <<"detailUrl", "noticeUrl", "url", "detailLink">>

\* value or ""
OrEmpty(v) == IF Truthy(v) THEN v ELSE EMPTY

UngmBase == <<"https://www.ungm.org">>

\* What one pass of a record loop does with a raw record:
\*   [do |-> "skip"]                  the record is dropped (continue)
\*   [do |-> "save", data |-> d]      save_to_db(d) is called
\*   [do |-> "raise"]                 an exception leaves the loop
Skip == [do |-> "skip"]
Raise == [do |-> "raise"]
Save(d) == [do |-> "save", data |-> d]

\* the body of the record loop of _process_ungm_json
UngmJsonStep(record, keywords) ==
    LET title     == ExtractUngmField(record, UngmTitleKeys)
        reference == ExtractUngmField(record, UngmReferenceKeys)
        detail    == ExtractUngmField(record, UngmDetailUrlKeys)
        pub_date  == ParseUngmDate(ExtractUngmField(record, UngmPublishedKeys))
        dead_date == ParseUngmDate(ExtractUngmField(record, UngmDeadlineKeys))
    IN  IF title = NULL THEN Skip
        ELSE IF keywords # <<>> /\ ~AnyKeywordIn(keywords, Lower(title)) THEN Skip
        ELSE IF reference = NULL THEN Skip
        ELSE IF pub_date = RAISES \/ dead_date = RAISES THEN Raise
        ELSE Save(TenderData(UNGM, reference, title,
                  OrEmpty(ExtractUngmField(record, UngmDescriptionKeys)),
                  pub_date, dead_date,
                  OrEmpty(ExtractUngmField(record, UngmAgencyKeys)),
                  OrEmpty(ExtractUngmField(record, UngmNoticeTypeKeys)),
                  OrEmpty(ExtractUngmField(record, UngmCountryKeys)),
                  IF detail # NULL /\ Head(detail) = "/"
                  THEN UngmBase \o detail ELSE detail))

----------------------------------------------------------------------------
(* UNGM HTML rows: the stripped texts of a row's .tableCell elements and   *)
(* the href of its first anchor                                             *)

\* deadline.split()[0] if deadline else deadline
FirstWord(s) ==
    IF s = EMPTY THEN s
    ELSE IF \E i \in 1..Len(s) : s[i] \in Whitespace
    THEN SubSeq(s, 1, (CHOOSE i \in 1..Len(s) :
                          s[i] \in Whitespace /\ \A j \in 1..(i - 1) : s[j] \notin Whitespace) - 1)
    ELSE s

\* the body of the row loop of crawl_ungm
UngmHtmlStep(row, keywords) ==
    IF Len(row.cells) < 8 THEN Skip
    ELSE LET title     == row.cells[2]
             deadline  == row.cells[3]
             published == row.cells[4]
             pub_date  == ParseUngmDate(published)
             dead_date == ParseUngmDate(FirstWord(deadline))
         IN  IF keywords # <<>> /\ ~AnyKeywordIn(keywords, Lower(title)) THEN Skip
             ELSE IF pub_date = RAISES \/ dead_date = RAISES THEN Raise
             ELSE Save(TenderData(UNGM, row.cells[7], title, EMPTY,
                       pub_date, dead_date, row.cells[5], row.cells[6],
                       row.cells[8],
                       IF Truthy(row.href) THEN UngmBase \o row.href ELSE NULL))

----------------------------------------------------------------------------
(* SAM notices.  A value nested in a dict of the notice is written under   *)
(* the dotted key: office.name is notice["office"]["name"].                 *)

RECURSIVE FirstTruthy(_, _)
\* d.get(k1) or d.get(k2) or ... or ""
FirstTruthy(d, keys) ==
    IF keys = <<>> THEN EMPTY
    ELSE IF Truthy(Get(d, Head(keys))) THEN d[Head(keys)]
    ELSE FirstTruthy(d, Tail(keys))

\* d.get(k1) or d.get(k2): the last operand as it is
FirstTruthyOrLast(d, keys) ==
    IF Truthy(FirstTruthy(d, SubSeq(keys, 1, Len(keys) - 1)))
    THEN FirstTruthy(d, SubSeq(keys, 1, Len(keys) - 1))
    ELSE Get(d, keys[Len(keys)])

NoTitle == <<"(No title)">>

\* the body of the notice loop of crawl_sam
SamStep(notice) ==
    LET reference_no == FirstTruthy(notice, <<"solicitationNumber", "noticeId", "id">>)
        title        == FirstTruthy(notice, <<"title", "subject">>)
    IN  IF ~Truthy(reference_no) THEN Skip
        ELSE Save(TenderData(SAM, reference_no,
                  IF Truthy(title) THEN title ELSE NoTitle,
                  FirstTruthy(notice, <<"description", "descriptionText", "summary">>),
                  ParseIsoDate(FirstTruthyOrLast(notice, <<"postedDate", "publishDate">>)),
                  ParseIsoDate(FirstTruthyOrLast(notice, <<"responseDate", "closeDate", "dueDate">>)),
                  FirstTruthy(notice, <<"organizationName", "organizationHierarchy.organizationName", "office.name">>),
                  FirstTruthy(notice, <<"type", "noticeType">>),
                  FirstTruthy(notice, <<"placeOfPerformance.country", "placeOfPerformance.address.country">>),
                  FirstTruthyOrLast(notice, <<"uiLink", "link">>)))

----------------------------------------------------------------------------
(* TED notices *)

TedNoticeUrl == <<"https://ted.europa.eu/udl?uri=TED:NOTICE:">>

\* the body of the notice loop of crawl_ted
TedStep(notice) ==
    LET reference_no == FirstTruthy(notice, <<"publicationNumber", "publication-number">>)
    IN  Save(TenderData(TED, reference_no,
                 IF "title" \in DOMAIN notice THEN notice["title"] ELSE EMPTY,
                 FirstTruthy(notice, <<"description", "shortDescription">>),
                 ParseIsoDate(FirstTruthy(notice, <<"publicationDate", "publication-date">>)),
                 ParseIsoDate(FirstTruthy(notice, <<"deadlineDate", "deadline-date">>)),
                 FirstTruthy(notice, <<"buyerName", "buyer-name">>),
                 FirstTruthy(notice, <<"noticeType", "notice-type">>),
                 FirstTruthy(notice, <<"buyerCountry", "buyer-country", "place-of-performance.country", "place-of-performance-country", "placeOfPerformanceCountry">>),
                 IF Truthy(reference_no) THEN TedNoticeUrl \o reference_no ELSE NULL))

----------------------------------------------------------------------------
(* The gateway called directly, with any record *)

GatewayRecords ==
    {TenderData(s, r, t, EMPTY, p, NULL, EMPTY, EMPTY, EMPTY, NULL) :
        s \in {UNGM, TED}, r \in {<<"R1">>, <<"R2">>},
        t \in {NULL, <<"T1">>, <<"T2">>}, p \in {NULL, <<"2024-01-01">>}}

\* a caller that supplies last_updated itself
GatewayInputs ==
    GatewayRecords \cup {With(d, "last_updated", 0) : d \in GatewayRecords}

InitStore ==
    /\ tenders = {}
    /\ clock = 1
    /\ lastSave = NoSave
    /\ upserted = {}

SaveAny ==
    /\ clock <= MaxClock
    /\ \E d \in GatewayInputs, available \in BOOLEAN : SaveToDb(d, available)
    /\ UNCHANGED <<crawlVars, libVars>>

NextStore == SaveAny

----------------------------------------------------------------------------
(* What the sources answer.  Titles are given character by character.      *)

PcrKit == <<"P", "C", "R", " ", "K", "i", "t">>
Chair  == <<"C", "h", "a", "i", "r">>
Blank  == <<" ">>
Ref1   == <<"R1">>
Ref2   == <<"R2">>

\* keywords = [token.lower() for token in tokens]: none, or one token
UngmKeywordSets == {<<>>, <<<<"p", "c", "r">>>>}

UngmJsonRecords ==
    {[title |-> PcrKit, reference |-> Ref1, published |-> IsoZ,
      detailUrl |-> <<"/", "Public/Notice/1">>],
     [noticeTitle |-> Chair, Reference |-> Ref2, deadline |-> EpochMs,
      noticeUrl |-> <<"Public/Notice/2">>],
     [reference |-> Ref1, description |-> PcrKit],
     [title |-> Blank, reference |-> Ref2],
     [title |-> PcrKit, reference |-> EMPTY],
     [title |-> PcrKit, reference |-> Ref1, published |-> EpochHuge]}

HtmlRow(title, deadline, published, reference, href) ==
    [cells |-> <<EMPTY, title, deadline, published, <<"WHO">>, <<"RFQ">>, reference, <<"Kenya">>>>,
     href  |-> href]

UngmHtmlRows ==
    {HtmlRow(PcrKit, <<"01-Jan-2024", " ", "12:00">>, DayMonYear, Ref1, <<"/Public/Notice/1">>),
     HtmlRow(Chair, EMPTY, DayMonYear, EMPTY, NULL),
     HtmlRow(EMPTY, EMPTY, EMPTY, Ref2, NULL),
     HtmlRow(PcrKit, EMPTY, EpochHuge, Ref1, NULL),
     [cells |-> <<EMPTY, PcrKit, EMPTY>>, href |-> NULL]}

SamNotices ==
    {[solicitationNumber |-> Ref1, title |-> PcrKit, postedDate |-> IsoZ],
     [noticeId |-> Ref2, description |-> PcrKit],
     [title |-> Chair, solicitationNumber |-> EMPTY]}

TedNotices ==
    {("publication-number" :> Ref1) @@ ("publication-date" :> IsoZ) @@ [title |-> PcrKit],
     [publicationNumber |-> Ref2],
     [title |-> Chair],
     [publicationNumber |-> Ref1, title |-> NULL],
     [publicationNumber |-> Ref2, title |-> OBJ]}

\* the lists of at most two records a response can carry
ListsOf(S) == {<<>>} \cup {<<x>> : x \in S} \cup {<<x, y>> : x \in S, y \in S}

\* save_to_db calls a behaviour may still make
Budget == MaxClock + 1 - clock

Fits(S) == {p \in ListsOf(S) : Len(p) <= Budget}

----------------------------------------------------------------------------
(* crawl_all and the three source crawls *)

NoLocals == [keywords |-> <<>>, mode |-> "page", more |-> FALSE,
             limit |-> 0, max_pages |-> 0, pages |-> 0, offset |-> 0,
             total |-> NULL, got |-> 0, posts |-> 0, requests |-> 0,
             api_key |-> NULL]

NoRaise == [src |-> "none", cause |-> "none"]
NoRaw == [src |-> "none", saved |-> FALSE]
\* the step does not read os.environ
NoEnviron == [read |-> FALSE]
NoHttp == [src |-> "none"]
NoLog == <<>>

InitCrawl ==
    /\ pc = "idle"
    /\ pending = <<>>
    /\ count = 0
    /\ result = <<>>
    /\ cur = NoLocals
    /\ raisedBy = NoRaise
    /\ lastRaw = NoRaw
    /\ environ = NoEnviron
    /\ http = NoHttp
    /\ log = NoLog

\* a step that takes no raw record and does not call save_to_db
NoCall ==
    /\ lastSave' = NoSave
    /\ lastRaw' = NoRaw
    /\ UNCHANGED <<tenders, clock, upserted, libVars>>

\* a step that makes no request and records no error
NoRequest ==
    /\ http' = NoHttp
    /\ log' = NoLog

\* the step makes a request of source src that ends in outcome
Requested(src, kind, outcome) ==
    http' = [src |-> src, kind |-> kind, outcome |-> outcome]

\* the source crawl goes on at statement p, its locals as they are
Goto(p) ==
    /\ pc' = p
    /\ UNCHANGED <<pending, count, result, cur, raisedBy>>

\* as AfterSource, but the next crawl starts at once, without time.sleep(2)
AfterSourceNoPause(src) ==
    CASE src = "ungm" -> "sam_start"
      [] src = "sam"  -> "ted_start"
      [] src = "ted"  -> "return"

\* the statement crawl_all runs after source src has returned
AfterSource(src) ==
    CASE src = "ungm" -> "sleep1"
      [] src = "sam"  -> "sleep2"
      [] src = "ted"  -> "return"

\* crawl_<src> returns n: crawl_all keeps it and goes on
Returns(src, n) ==
    /\ result' = With(result, src, n)
    /\ pc' = AfterSource(src)
    /\ pending' = <<>>
    /\ count' = 0
    /\ cur' = NoLocals
    /\ UNCHANGED raisedBy

\* an exception leaves crawl_<src>; crawl_all has no handler, so it leaves
\* crawl_all too
Propagates(src, cause) ==
    /\ raisedBy' = [src |-> src, cause |-> cause]
    /\ pc' = "raised"
    /\ pending' = <<>>
    /\ count' = 0
    /\ cur' = NoLocals
    /\ UNCHANGED result

\* an exception raised inside the record loop of crawl_<src>: crawl_ted runs
\* its loop inside try/except Exception and returns 0; the loops of crawl_ungm
\* and crawl_sam are inside no handler
LoopException(src, cause) ==
    IF src = "ted" THEN Returns("ted", 0) ELSE Propagates(src, cause)

\* the loop takes the head of pending and stays in the loop
NextRecord(n) ==
    /\ pending' = Tail(pending)
    /\ count' = n
    /\ UNCHANGED <<pc, result, cur, raisedBy>>

\* one pass of a record loop: the step the loop body computes for the head
\* of pending, and the save_to_db call it makes
LoopPass(src, kind, step) ==
    /\ UNCHANGED libVars
    /\ environ' = NoEnviron
    /\ NoRequest
    /\ CASE step.do = "skip" ->
              /\ lastRaw' = [src |-> kind, raw |-> Head(pending), saved |-> FALSE]
              /\ lastSave' = NoSave
              /\ NextRecord(count)
              /\ UNCHANGED <<tenders, clock, upserted>>
         [] step.do = "raise" ->
              /\ lastRaw' = [src |-> kind, raw |-> Head(pending), saved |-> FALSE]
              /\ lastSave' = NoSave
              /\ LoopException(src, "record")
              /\ UNCHANGED <<tenders, clock, upserted>>
         [] step.do = "save" ->
              \E available \in BOOLEAN :
                /\ lastRaw' = [src |-> kind, raw |-> Head(pending), saved |-> TRUE]
                /\ SaveToDb(step.data, available)
                /\ CASE SaveResult(step.data, available) = "True" -> NextRecord(count + 1)
                     [] SaveResult(step.data, available) = "False" -> NextRecord(count)
                     [] OTHER -> LoopException(src, "save_to_db")

Secret == <<"S3CR3T">>

\* the environments crawl_sam can find: no key, an empty key, the key, the
\* key under its second name
Environs ==
    {<<>>, [SAM_API_KEY |-> EMPTY], [SAM_API_KEY |-> Secret],
     [SAM_API_KEY |-> EMPTY, SAM_GOV_API_KEY |-> Secret]}

\* crawl_all is entered: by the timed trigger or by the manual one
CrawlAllStart ==
    /\ pc \in {"idle", "returned", "raised"}
    /\ Budget > 0
    /\ pc' = "ungm_config"
    /\ result' = <<>>
    /\ raisedBy' = NoRaise
    /\ cur' = NoLocals
    /\ pending' = <<>>
    /\ count' = 0
    /\ environ' = NoEnviron
    /\ NoCall /\ NoRequest

\* crawl_ungm up to the bootstrap: get_search_config reads the store outside
\* any handler; the tokens of the configured query become the keywords
UngmConfig ==
    /\ pc = "ungm_config"
    /\ NoCall /\ NoRequest /\ environ' = NoEnviron
    /\ \E available \in BOOLEAN :
         IF available
         THEN \E kw \in UngmKeywordSets :
                /\ cur' = [NoLocals EXCEPT !.keywords = kw]
                /\ pc' = "ungm_boot"
                /\ UNCHANGED <<pending, count, result, raisedBy>>
         ELSE Propagates("ungm", "config_read")

\* _bootstrap_ungm_tokens inside try/except Exception: return 0 on failure
UngmBootstrap ==
    /\ pc = "ungm_boot"
    /\ NoCall /\ log' = NoLog /\ environ' = NoEnviron
    /\ \E outcome \in {"ok", "error"} :
         /\ Requested("ungm", "bootstrap", outcome)
         /\ IF outcome = "ok" THEN Goto("ungm_post") ELSE Returns("ungm", 0)

\* how _post_ungm_search can end: a response, an HTTPError for a 404 page
\* that says FileNotFound, an HTTPError for another status, another
\* RequestException
UngmSearchOutcomes == {"ok", "file_not_found", "http_error", "request_exception"}

\* as ShouldRetryUngm, but every HTTPError is retried
ShouldRetryUngmAnyStatus(outcome) == outcome \in {"file_not_found", "http_error"}

\* should_retry: status 404 and "FileNotFound" in the URL or the body
ShouldRetryUngm(outcome) == outcome = "file_not_found"

\* the search of crawl_ungm: _post_ungm_search inside
\* try / except HTTPError / except RequestException
UngmPost ==
    /\ pc = "ungm_post"
    /\ NoCall /\ log' = NoLog /\ environ' = NoEnviron
    /\ \E outcome \in UngmSearchOutcomes :
         /\ Requested("ungm", "search", outcome)
         /\ IF outcome = "ok" \/ (outcome # "request_exception" /\ ShouldRetryUngm(outcome))
            THEN /\ pc' = IF outcome = "ok" THEN "ungm_parse" ELSE "ungm_retry"
                 /\ cur' = [cur EXCEPT !.posts = cur.posts + 1]
                 /\ UNCHANGED <<pending, count, result, raisedBy>>
            ELSE Returns("ungm", 0)

\* the re-bootstrap and the second search, inside try/except Exception
UngmRetry ==
    /\ pc = "ungm_retry"
    /\ NoCall /\ log' = NoLog /\ environ' = NoEnviron
    /\ \E outcome \in UngmSearchOutcomes \cup {"bootstrap_error"} :
         /\ Requested("ungm", "retry", outcome)
         /\ IF outcome = "ok"
            THEN /\ pc' = "ungm_parse"
                 /\ cur' = [cur EXCEPT !.posts = cur.posts + 1]
                 /\ UNCHANGED <<pending, count, result, raisedBy>>
            ELSE Returns("ungm", 0)

UngmInvalidJsonLog ==
    <<"UNGM crawling failed: invalid JSON response - Expecting value: line 1 column 1 (char 0)">>

UngmNoParserLog ==
    <<"UNGM crawling failed: BeautifulSoup is required to parse HTML responses">>

\* the response is JSON that does not decode (return 0), a JSON payload, or
\* an HTML table
UngmParse ==
    /\ pc = "ungm_parse"
    /\ NoCall /\ http' = NoHttp /\ environ' = NoEnviron
    /\ \/ \* the body looks like JSON and response.json() raises ValueError
          /\ log' = <<UngmInvalidJsonLog>>
          /\ Returns("ungm", 0)
       \/ \* the body is HTML and BeautifulSoup is not installed
          /\ log' = <<UngmNoParserLog>>
          /\ Returns("ungm", 0)
       \/ \E records \in Fits(UngmJsonRecords) :
            /\ log' = NoLog
            /\ pending' = records
            /\ pc' = "ungm_json"
            /\ count' = 0
            /\ UNCHANGED <<result, cur, raisedBy>>
       \/ \E rows \in Fits(UngmHtmlRows) :
            /\ log' = NoLog
            /\ pending' = rows
            /\ pc' = "ungm_html"
            /\ count' = 0
            /\ UNCHANGED <<result, cur, raisedBy>>

UngmJsonRecord ==
    /\ pc = "ungm_json" /\ pending # <<>>
    /\ LoopPass("ungm", "ungm_json", UngmJsonStep(Head(pending), cur.keywords))

UngmHtmlRow ==
    /\ pc = "ungm_html" /\ pending # <<>>
    /\ LoopPass("ungm", "ungm_html", UngmHtmlStep(Head(pending), cur.keywords))

\* return count
UngmDone ==
    /\ pc \in {"ungm_json", "ungm_html"} /\ pending = <<>>
    /\ NoCall /\ NoRequest /\ environ' = NoEnviron
    /\ Returns("ungm", count)

\* time.sleep(2)
Sleep1 ==
    /\ pc = "sleep1"
    /\ NoCall /\ NoRequest /\ environ' = NoEnviron
    /\ Goto("sam_start")

\* a variant that falls back on the public demonstration key
SamApiKeyOrDemoKey(env) ==
    IF Truthy(FirstTruthy(env, <<"SAM_API_KEY", "SAM_GOV_API_KEY">>))
    THEN FirstTruthy(env, <<"SAM_API_KEY", "SAM_GOV_API_KEY">>)
    ELSE <<"DEMO_KEY">>

\* os.getenv("SAM_API_KEY") or os.getenv("SAM_GOV_API_KEY")
SamApiKey(env) == FirstTruthyOrLast(env, <<"SAM_API_KEY", "SAM_GOV_API_KEY">>)

\* crawl_sam up to the page loop: no API key, return 0; get_sam_settings
\* reads the store outside any handler
SamStart ==
    /\ pc = "sam_start"
    /\ NoCall /\ NoRequest
    /\ \E env \in Environs, available \in BOOLEAN :
         /\ environ' = [read |-> TRUE, vars |-> env]
         /\ IF ~Truthy(SamApiKey(env)) THEN Returns("sam", 0)
            ELSE IF ~available THEN Propagates("sam", "config_read")
            ELSE \E max_pages \in {1, 2} :
                /\ cur' = [NoLocals EXCEPT !.limit = 2, !.max_pages = max_pages,
                                           !.api_key = SamApiKey(env)]
                /\ pc' = "sam_fetch"
                /\ pending' = <<>>
                /\ count' = 0
                /\ UNCHANGED <<result, raisedBy>>

\* In the texts of crawl_sam a chunk is "api_key=" in some letter case, "&",
\* the key value, or a run of characters without "&".

\* what re.IGNORECASE lets (api_key=) match
ApiKeyPrefixes == {"api_key=", "API_KEY=", "Api_Key="}

RECURSIVE SkipToAmpersand(_)
\* the text from its first "&" on: what ([^&]+) leaves
SkipToAmpersand(text) ==
    IF text = <<>> \/ Head(text) = "&" THEN text ELSE SkipToAmpersand(Tail(text))

RECURSIVE MaskApiKey(_)
\* _mask_api_key: _API_KEY_PATTERN.sub of (api_key=)([^&]+) by api_key=***
MaskApiKey(text) ==
    IF text = <<>> THEN text
    ELSE IF Head(text) \in ApiKeyPrefixes /\ Len(text) > 1 /\ text[2] # "&"
    THEN <<Head(text), "***">> \o MaskApiKey(SkipToAmpersand(Tail(text)))
    ELSE <<Head(text)>> \o MaskApiKey(Tail(text))

RECURSIVE PreviewText(_, _)
\* text[:length], for a cut that falls between chunks
PreviewText(text, length) ==
    IF text = <<>> \/ Len(Head(text)) > length THEN <<>>
    ELSE <<Head(text)>> \o PreviewText(Tail(text), length - Len(Head(text)))

\* the URL of the request: params begins with api_key
SamQuery(key) == <<"api_key=">> \o key \o <<"&", "limit=2", "&", "offset=0">>

\* str(exc) of the HTTPError of raise_for_status
SamHttpErrorText(key) ==
    <<"403 Client Error: Forbidden for url: https://api.sam.gov/prod/opportunities/v1/search?">>
        \o SamQuery(key)

\* str(exc) of a requests.ConnectionError after the retries of the adapter
SamConnectionErrorText(key) ==
    <<"HTTPSConnectionPool(host='api.sam.gov', port=443): Max retries exceeded with url: /prod/opportunities/v1/search?">>
        \o SamQuery(key) \o <<" (Caused by ConnectTimeoutError)">>

\* bodies of an error response: none, a JSON error, a page that quotes the
\* request URL, a JSON document that quotes the key
SamErrorBodies(key) ==
    {EMPTY,
     <<"{\"error\": {\"code\": \"API_KEY_INVALID\"}}">>,
     <<"Forbidden: /prod/opportunities/v1/search?">> \o SamQuery(key),
     <<"{\"api_key\": \"">> \o key \o <<"\"}">>}

\* the message logged for an HTTPError: the masked exception text, then
\* json.dumps(exc.response.json())[:200] or _preview_text(exc.response.text)
SamHttpErrorLog(key, body) ==
    <<"SAM.gov crawling failed: ">> \o MaskApiKey(SamHttpErrorText(key))
        \o (IF PreviewText(body, 200) # <<>> THEN <<" - ">> \o PreviewText(body, 200) ELSE <<>>)

\* the message logged for another RequestException
SamRequestExceptionLog(key) ==
    <<"SAM.gov crawling failed: ">> \o MaskApiKey(SamConnectionErrorText(key))

SamInvalidJsonLog ==
    <<"SAM.gov crawling failed: invalid JSON response - Expecting value: line 1 column 1 (char 0)">>

SamUnexpectedPayloadLog == <<"SAM.gov crawling failed: unexpected payload structure">>

\* the request fails or its body is unusable: the message is logged and
\* crawl_sam returns total_saved
SamFailed(outcome, message) ==
    /\ Requested("sam", "get", outcome)
    /\ log' = <<message>>
    /\ Returns("sam", count)

\* one session.get of the page loop and the decoding of its body
SamFetch ==
    /\ pc = "sam_fetch"
    /\ NoCall /\ environ' = NoEnviron
    /\ \/ \E body \in SamErrorBodies(cur.api_key) :
            SamFailed("http_error", SamHttpErrorLog(cur.api_key, body))
       \/ SamFailed("request_exception", SamRequestExceptionLog(cur.api_key))
       \/ SamFailed("invalid_json", SamInvalidJsonLog)
       \/ SamFailed("unexpected_payload", SamUnexpectedPayloadLog)
       \/ \* the body is JSON but no dict: payload.get raises AttributeError
          /\ Requested("sam", "get", "ok")
          /\ log' = NoLog
          /\ Propagates("sam", "payload_shape")
       \/ \E notices \in Fits(SamNotices), total \in {NULL, <<"2">>, <<"4">>} :
            /\ Requested("sam", "get", "ok")
            /\ log' = NoLog
            /\ IF notices = <<>>
               THEN Returns("sam", count)
               ELSE /\ pending' = notices
                    /\ cur' = [cur EXCEPT !.total = total, !.got = Len(notices),
                                          !.requests = cur.requests + 1]
                    /\ pc' = "sam_records"
                    /\ UNCHANGED <<count, result, raisedBy>>

SamRecord ==
    /\ pc = "sam_records" /\ pending # <<>>
    /\ LoopPass("sam", "sam", SamStep(Head(pending)))

\* int(total_records)
TotalRecords(total) == IF total = <<"2">> THEN 2 ELSE 4

\* a variant whose loop is 'while True'
SamLoopEndsUnbounded(locals, offset, pages) ==
    \/ (locals.total # NULL /\ offset >= TotalRecords(locals.total))
    \/ locals.got < locals.limit

\* the loop is left after the page: the break on the declared total, the
\* break on a short page, or the condition of 'while pages_fetched < max_pages'
SamLoopEnds(locals, offset, pages) ==
    \/ (locals.total # NULL /\ offset >= TotalRecords(locals.total))
    \/ locals.got < locals.limit
    \/ ~(pages < locals.max_pages)

\* after the notices of a page: advance the offset, then stop on the declared
\* total, on a short page, or on max_pages
SamPageEnd ==
    /\ pc = "sam_records" /\ pending = <<>>
    /\ NoCall /\ NoRequest /\ environ' = NoEnviron
    /\ LET offset == cur.offset + cur.limit
           pages  == cur.pages + 1
           stop   == SamLoopEnds(cur, offset, pages)
       IN  IF stop
           THEN Returns("sam", count)
           ELSE /\ cur' = [cur EXCEPT !.offset = offset, !.pages = pages]
                /\ pc' = "sam_fetch"
                /\ UNCHANGED <<pending, count, result, raisedBy>>

\* time.sleep(2)
Sleep2 ==
    /\ pc = "sleep2"
    /\ NoCall /\ NoRequest /\ environ' = NoEnviron
    /\ Goto("ted_start")

\* crawl_ted up to the search: get_ted_settings reads the store outside any
\* handler; mode is "page" or "iteration"
TedStart ==
    /\ pc = "ted_start"
    /\ NoCall /\ NoRequest /\ environ' = NoEnviron
    /\ \E available \in BOOLEAN :
         IF ~available THEN Propagates("ted", "config_read")
         ELSE \E mode \in {"page", "iteration"} :
                /\ cur' = [NoLocals EXCEPT !.mode = mode]
                /\ pc' = "ted_exec"
                /\ UNCHANGED <<pending, count, result, raisedBy>>

\* what a TED request can end in, after the retries of _perform_request
TedFailures == {"unsupported_field", "http_error", "transient_exhausted",
                "decode_error", "request_exception"}

\* _should_retry_ted_without_fields: a TedHTTPError with status 400 whose
\* message names an unsupported field
ShouldRetryTedWithoutFields(failure) == failure = "unsupported_field"

\* notice_iterable = _execute_ted_search(field_tokens), inside
\* 'try ... except TedHTTPError'.  In iteration mode this only creates the
\* generator of iterate_all; in page mode it runs search_once.
TedExecute ==
    /\ pc = "ted_exec"
    /\ NoCall /\ log' = NoLog /\ environ' = NoEnviron
    /\ IF cur.mode = "iteration"
       THEN /\ http' = NoHttp
            /\ cur' = [cur EXCEPT !.more = TRUE]
            /\ pc' = "ted_records"
            /\ pending' = <<>>
            /\ count' = 0
            /\ UNCHANGED <<result, raisedBy>>
       ELSE \/ \E notices \in Fits(TedNotices) :
                 /\ Requested("ted", "search", "ok")
                 /\ pending' = notices
                 /\ pc' = "ted_records"
                 /\ count' = 0
                 /\ UNCHANGED <<cur, result, raisedBy>>
            \/ \E failure \in TedFailures :
                 /\ Requested("ted", "search", failure)
                 /\ IF ShouldRetryTedWithoutFields(failure)
                    THEN Goto("ted_retry")
                    ELSE Propagates("ted", failure)

\* notice_iterable = _execute_ted_search([]) in the except clause: nothing
\* handles what this second search raises
TedRetry ==
    /\ pc = "ted_retry"
    /\ NoCall /\ log' = NoLog /\ environ' = NoEnviron
    /\ \/ \E notices \in Fits(TedNotices) :
            /\ Requested("ted", "retry", "ok")
            /\ pending' = notices
            /\ pc' = "ted_records"
            /\ count' = 0
            /\ UNCHANGED <<cur, result, raisedBy>>
       \/ \E failure \in TedFailures :
            /\ Requested("ted", "retry", failure)
            /\ Propagates("ted", failure)

TedRecord ==
    /\ pc = "ted_records" /\ pending # <<>>
    /\ LoopPass("ted", "ted", TedStep(Head(pending)))

\* the for loop asks the generator of iterate_all for the next notice and
\* the batch at hand is used up: search_once runs, inside the loop's
\* try/except, and its page says whether a continuation token follows
TedNextBatch ==
    /\ pc = "ted_records" /\ pending = <<>> /\ cur.more
    /\ NoCall /\ log' = NoLog /\ environ' = NoEnviron
    /\ \/ \E notices \in Fits(TedNotices), token \in BOOLEAN :
            /\ Requested("ted", "batch", "ok")
            /\ pending' = notices
            /\ cur' = [cur EXCEPT !.more = token /\ Budget > Len(notices)]
            /\ UNCHANGED <<pc, count, result, raisedBy>>
       \/ \E failure \in TedFailures :
            /\ Requested("ted", "batch", failure)
            /\ Returns("ted", 0)

\* return count
TedDone ==
    /\ pc = "ted_records" /\ pending = <<>> /\ ~cur.more
    /\ NoCall /\ NoRequest /\ environ' = NoEnviron
    /\ Returns("ted", count)

\* return {"ungm": ..., "sam": ..., "ted": ..., "duration": ...}
CrawlAllReturn ==
    /\ pc = "return"
    /\ NoCall /\ NoRequest /\ environ' = NoEnviron
    /\ Goto("returned")

----------------------------------------------------------------------------
(* iterate_all of ted_client, consumed to its end against a server whose   *)
(* answers are scripted: answer i is script[i], and the last answer is     *)
(* repeated to every later request.                                         *)

\* a JSON value inside a payload that is a dict, and one that is not
Dict(items) == [dict |-> TRUE, truthy |-> DOMAIN items # {}, items |-> items]
NonDict(value) == [dict |-> FALSE, truthy |-> Truthy(value), items |-> [k \in {} |-> <<>>]]

\* next_page = payload.get("nextPage") or payload.get("next-page")
NextPageOf(payload) ==
    IF "nextPage" \in DOMAIN payload /\ payload["nextPage"].truthy THEN payload["nextPage"]
    ELSE IF "next-page" \in DOMAIN payload THEN payload["next-page"]
    ELSE NonDict(NULL)

\* _extract_iteration_token
ExtractIterationToken(payload) ==
    IF Truthy(FirstTruthy(payload, <<"nextPageToken", "next-page-token", "iterationToken">>))
    THEN FirstTruthy(payload, <<"nextPageToken", "next-page-token", "iterationToken">>)
    ELSE IF NextPageOf(payload).dict
              /\ Truthy(FirstTruthy(NextPageOf(payload).items, <<"token", "pageToken">>))
    THEN FirstTruthy(NextPageOf(payload).items, <<"token", "pageToken">>)
    ELSE NULL

\* as FromApiPayload, but only the first notice of the payload is kept
FromApiPayloadFirstNotice(payload) ==
    [notices |-> SubSeq(payload.results, 1, 1),
     next_page_token |-> ExtractIterationToken(payload)]

\* TedSearchPage.from_api_payload: the notices and the continuation token
FromApiPayload(payload) ==
    [notices |-> payload.results, next_page_token |-> ExtractIterationToken(payload)]

\* as IterationCompleted, but the loop ends on a page without notices
IterationCompletedOnEmptyPage(page) == page.notices = <<>>

\* if not page.next_page_token: break
IterationCompleted(page) == ~Truthy(page.next_page_token)

\* what the server answers, with the continuation token it means to give
\* (NULL: none)
Answer(token, payload) == [token |-> token, payload |-> payload]

TokenA == <<"A">>
TokenB == <<"B">>
TokenC == <<"C">>

TedAnswers ==
    {Answer(TokenA, [results |-> <<[publicationNumber |-> Ref1]>>, nextPageToken |-> TokenA]),
     Answer(TokenB, ("next-page-token" :> TokenB) @@ [results |-> <<[publicationNumber |-> Ref2]>>]),
     Answer(TokenC, [results |-> <<>>, nextPage |-> Dict([token |-> TokenC])]),
     Answer(NULL, [results |-> <<[publicationNumber |-> Ref1], [publicationNumber |-> Ref2]>>]),
     Answer(NULL, [results |-> <<>>, nextPageToken |-> EMPTY, nextPage |-> Dict([k \in {} |-> <<>>])]),
     Answer(NULL, [results |-> <<[publicationNumber |-> Ref2]>>, nextPageToken |-> NULL,
                   nextPage |-> NonDict(TokenA)])}

ServerScripts ==
    UNION {[1..n -> TedAnswers] : n \in 1..MaxAnswers}

\* the answer to the i-th request
AnswerTo(script, i) == IF i <= Len(script) THEN script[i] ELSE script[Len(script)]

NoPage == [notices |-> <<>>, next_page_token |-> NULL]

\* iterate_all is not called
NoIter == [state |-> "idle", script |-> <<>>, iteration_token |-> NULL,
           searches |-> 0, sent |-> <<>>, page |-> NoPage, batch |-> <<>>,
           yielded |-> 0, out |-> <<>>]

\* iterate_all(q) has been called: nothing runs before the first next()
IterateAllCalled ==
    \E script \in ServerScripts :
        it = [NoIter EXCEPT !.state = "search", !.script = script]

\* page = search_once(..., iteration_token=iteration_token)
IterSearchOnce ==
    /\ it.state = "search"
    /\ it.searches < MaxSearches
    /\ LET page == FromApiPayload(AnswerTo(it.script, it.searches + 1).payload)
       IN  it' = [it EXCEPT !.searches = it.searches + 1,
                            !.sent = Append(it.sent, it.iteration_token),
                            !.page = page,
                            !.batch = page.notices,
                            !.state = "yield"]
    /\ UNCHANGED <<storeVars, crawlVars, args, query, calls, boot, call>>

\* for notice in page.notices: yield notice
IterYield ==
    /\ it.state = "yield" /\ it.batch # <<>>
    /\ it' = [it EXCEPT !.batch = Tail(it.batch), !.yielded = it.yielded + 1,
                         !.out = Append(it.out, Head(it.batch))]
    /\ UNCHANGED <<storeVars, crawlVars, args, query, calls, boot, call>>

\* as IterPageEnd, but the loop also ends when the page carries the token
\* the request was made with
IterPageEndOnRepeatedToken ==
    /\ it.state = "yield" /\ it.batch = <<>>
    /\ IF IterationCompleted(it.page) \/ it.page.next_page_token = it.iteration_token
       THEN it' = [it EXCEPT !.state = "exhausted"]
       ELSE it' = [it EXCEPT !.state = "search",
                             !.iteration_token = it.page.next_page_token]
    /\ UNCHANGED <<storeVars, crawlVars, args, query, calls, boot, call>>

\* after the notices of the page: break, or keep the token and go round
IterPageEnd ==
    /\ it.state = "yield" /\ it.batch = <<>>
    /\ IF IterationCompleted(it.page)
       THEN it' = [it EXCEPT !.state = "exhausted"]
       ELSE it' = [it EXCEPT !.state = "search",
                             !.iteration_token = it.page.next_page_token]
    /\ UNCHANGED <<storeVars, crawlVars, args, query, calls, boot, call>>

NextIter == IterSearchOnce \/ IterYield \/ IterPageEnd

----------------------------------------------------------------------------
(* _bootstrap_ungm_tokens called on its own.  The answers to the GET of the *)
(* referer URL and of the search URL are scripted.                          *)

FormA == <<"form-A">>

FormB == <<"form-B">>

CookieA == <<"cookie-A">>

CookieB == <<"cookie-B">>

\* a 200 page: the value of its input __RequestVerificationToken, its
\* cookie __RequestVerificationToken, and the value its script gives under
\* 'RequestVerificationToken': '...' (no leading underscores)
Page(input, cookie, inline) ==
    [kind |-> "page", input |-> input, cookie |-> cookie, inline |-> inline]

\* raise_for_status raises HTTPError; file_not_found: the URL or the first
\* 200 characters of the body hold "FileNotFound"
ErrorPage(status, file_not_found) ==
    [kind |-> "http_error", status |-> status, file_not_found |-> file_not_found]

\* session.get raises a RequestException that is no HTTPError
ConnectionFailure == [kind |-> "request_exception"]

BootstrapAnswers ==
    {Page(FormA, CookieA, NULL), Page(FormA, NULL, NULL), Page(FormB, NULL, NULL),
     Page(NULL, CookieA, NULL), Page(NULL, NULL, NULL), Page(EMPTY, NULL, NULL),
     Page(NULL, NULL, CookieB \o <<":">> \o FormB), Page(NULL, NULL, FormB),
     ErrorPage(404, TRUE), ErrorPage(404, FALSE), ErrorPage(500, FALSE),
     ConnectionFailure}

\* ":" in combined
HasColon(combined) == \E i \in 1..Len(combined) : combined[i] = ":"

\* combined.split(":", 1)
SplitAtColon(combined) ==
    LET k == CHOOSE i \in 1..Len(combined) :
                 combined[i] = ":" /\ \A j \in 1..(i - 1) : combined[j] # ":"
    IN  <<SubSeq(combined, 1, k - 1), SubSeq(combined, k + 1, Len(combined))>>

\* _extract_ungm_tokens(response), jar being session.cookies
ExtractUngmTokens(response, jar) ==
    LET form_token   == IF Truthy(response.input) THEN response.input ELSE NULL
        cookie_token == IF Truthy(response.cookie) THEN response.cookie
                        ELSE IF Truthy(jar) THEN jar ELSE NULL
        combined     == response.inline
    IN  IF Truthy(cookie_token) \/ combined = NULL
        THEN [form_token |-> form_token, cookie_token |-> cookie_token]
        ELSE IF HasColon(combined)
        THEN [form_token |-> IF Truthy(form_token) THEN form_token
                             ELSE SplitAtColon(combined)[2],
              cookie_token |-> SplitAtColon(combined)[1]]
        ELSE [form_token |-> IF Truthy(form_token) THEN form_token ELSE combined,
              cookie_token |-> cookie_token]

\* as ShouldSkip, but no HTTPError is skipped
ShouldSkipNever(response) == FALSE

\* should_skip: the HTTPError is a 404 whose URL or body says FileNotFound
ShouldSkip(response) == response.status = 404 /\ response.file_not_found

\* as BothFound, but the form token alone ends the loop
FormTokenFound(token, cookie) == Truthy(token)

\* if verification_token and verification_cookie: break
BothFound(token, cookie) == Truthy(token) /\ Truthy(cookie)

BootstrapUrls == <<"referer_url", "search_url">>

\* no other function is called on its own
NoLibCall == [fn |-> "none"]

\* _bootstrap_ungm_tokens is not called
NoBoot == [state |-> "idle", script |-> <<>>, at |-> 0,
           verification_token |-> NULL, verification_cookie |-> NULL,
           jar |-> NULL, cause |-> "none"]

\* _bootstrap_ungm_tokens(referer_url, search_url) has been called with a
\* session that holds no cookie
BootstrapCalled ==
    \E script \in [1..Len(BootstrapUrls) -> BootstrapAnswers] :
        boot = [NoBoot EXCEPT !.state = "get", !.script = script, !.at = 1]

\* the exception leaves _bootstrap_ungm_tokens
BootstrapRaises(cause) == boot' = [boot EXCEPT !.state = "raised", !.cause = cause]

\* the loop goes to its next URL, or ends after the last
BootstrapContinue(locals) ==
    boot' = IF locals.at = Len(BootstrapUrls)
            THEN [locals EXCEPT !.state = "after_loop"]
            ELSE [locals EXCEPT !.at = locals.at + 1]

\* one round of 'for bootstrap_url in (referer_url, search_url)': the GET
\* and what the loop does with its answer
BootstrapRound ==
    /\ boot.state = "get"
    /\ LET response == boot.script[boot.at]
       IN  CASE response.kind = "request_exception" ->
                  BootstrapRaises("request_exception")
             [] response.kind = "http_error" ->
                  IF ShouldSkip(response)
                  THEN BootstrapContinue(boot)
                  ELSE BootstrapRaises("http_error")
             [] response.kind = "page" ->
                  LET found == ExtractUngmTokens(response, boot.jar)
                      token == IF Truthy(found.form_token)
                                    /\ ~Truthy(boot.verification_token)
                               THEN found.form_token ELSE boot.verification_token
                      cookie == IF Truthy(found.cookie_token)
                                     /\ ~Truthy(boot.verification_cookie)
                                THEN found.cookie_token ELSE boot.verification_cookie
                      \* the session keeps the cookies of the response
                      kept == [boot EXCEPT !.verification_token = token,
                                           !.verification_cookie = cookie,
                                           !.jar = IF Truthy(response.cookie)
                                                   THEN response.cookie ELSE boot.jar]
                  IN  IF BothFound(token, cookie)
                      THEN boot' = [kept EXCEPT !.state = "after_loop"]
                      ELSE BootstrapContinue(kept)

\* one round of the loop of a bootstrap called on its own
BootstrapGet ==
    /\ BootstrapRound
    /\ UNCHANGED <<storeVars, crawlVars, args, query, calls, it, call>>

\* after the loop: RuntimeError without a token; else the cookie is put into
\* the session and (verification_token, verification_cookie) is returned
BootstrapEnd ==
    /\ boot.state = "after_loop"
    /\ IF ~Truthy(boot.verification_token)
       THEN BootstrapRaises("no_token")
       ELSE boot' = [boot EXCEPT !.state = "returned",
                                 !.jar = IF Truthy(boot.verification_cookie)
                                         THEN boot.verification_cookie ELSE boot.jar]

\* the end of a bootstrap called on its own
BootstrapReturn ==
    /\ BootstrapEnd
    /\ UNCHANGED <<storeVars, crawlVars, args, query, calls, it, call>>

NextBootstrap == BootstrapGet \/ BootstrapReturn

----------------------------------------------------------------------------
(* build_query of ted_client.  Every text here is given character by       *)
(* character.                                                               *)

UpperChar(c) ==
    IF \E i \in 1..Len(LowerChars) : LowerChars[i] = c
    THEN UpperChars[CHOOSE i \in 1..Len(LowerChars) : LowerChars[i] = c]
    ELSE c

\* str.upper()
Upper(s) == [i \in 1..Len(s) |-> UpperChar(s[i])]

Digits == <<"0", "1", "2", "3", "4", "5", "6", "7", "8", "9">>

RECURSIVE Decimal(_)
Decimal(n) ==
    IF n < 10 THEN <<Digits[n + 1]>>
    ELSE Decimal(n \div 10) \o <<Digits[(n % 10) + 1]>>

RECURSIVE ZeroPad(_, _)
ZeroPad(s, width) == IF Len(s) >= width THEN s ELSE ZeroPad(<<"0">> \o s, width)

\* YYYY-MM-DD
YearMonthDay(value) ==
    ZeroPad(Decimal(value.year), 4) \o <<"-">> \o ZeroPad(Decimal(value.month), 2)
        \o <<"-">> \o ZeroPad(Decimal(value.day), 2)

\* _format_date: strftime("%Y-%m-%d") of a datetime, isoformat() of a date,
\* a str as it is
FormatDate(value) ==
    CASE value.type = "datetime" -> YearMonthDay(value)
      [] value.type = "date"     -> YearMonthDay(value)
      [] OTHER                   -> value.value

PublicationDate   == <<"p", "u", "b", "l", "i", "c", "a", "t", "i", "o", "n", "-", "d", "a", "t", "e", ":", "[">>
To                == <<" ", "T", "O", " ">>
PlaceCountry      == <<"(", "p", "l", "a", "c", "e", "-", "o", "f", "-", "p", "e", "r", "f", "o", "r", "m", "a", "n", "c", "e", ".", "c", "o", "u", "n", "t", "r", "y", ":">>
OrBuyerCountry    == <<" ", "O", "R", " ", "b", "u", "y", "e", "r", "-", "c", "o", "u", "n", "t", "r", "y", ":">>
ClassificationCpv == <<"c", "l", "a", "s", "s", "i", "f", "i", "c", "a", "t", "i", "o", "n", "-", "c", "p", "v", ":">>
TitleOpen         == <<"t", "i", "t", "l", "e", ":", "(">>
FormTypeOpen      == <<"f", "o", "r", "m", "-", "t", "y", "p", "e", ":", "(">>
Or                == <<" ", "O", "R", " ">>
And               == <<" ", "A", "N", "D", " ">>
Quote             == <<"\"">>

RECURSIVE Join(_, _)
\* sep.join(parts)
Join(sep, parts) ==
    IF parts = <<>> THEN <<>>
    ELSE IF Len(parts) = 1 THEN parts[1]
    ELSE parts[1] \o sep \o Join(sep, Tail(parts))

\* an optional argument: None when it is not given, and 'if countries:' takes
\* None as it takes the empty list
Arg(params, name) == IF name \in DOMAIN params THEN params[name] ELSE <<>>

\* f"publication-date:[{_format_date(date_from)} TO {_format_date(date_to)}]"
DateClause(date_from, date_to) ==
    PublicationDate \o FormatDate(date_from) \o To \o FormatDate(date_to) \o <<"]">>

RECURSIVE CountryClauses(_)
\* country_clauses after the loop over countries
CountryClauses(countries) ==
    IF countries = <<>> THEN <<>>
    ELSE LET code_clean == Upper(Strip(Head(countries)))
         IN  (IF code_clean = <<>> THEN <<>>
              ELSE <<PlaceCountry \o code_clean \o OrBuyerCountry \o code_clean \o <<")">>>>)
             \o CountryClauses(Tail(countries))

RECURSIVE CpvClauses(_)
\* cpv_clauses after the loop over cpv_prefixes
CpvClauses(cpv_prefixes) ==
    IF cpv_prefixes = <<>> THEN <<>>
    ELSE LET prefix_clean == Strip(Head(cpv_prefixes))
         IN  (IF prefix_clean = <<>> THEN <<>>
              ELSE <<ClassificationCpv \o prefix_clean>>)
             \o CpvClauses(Tail(cpv_prefixes))

\* " " in token or ":" in token
NeedsQuotes(token) == \E i \in 1..Len(token) : token[i] \in {" ", ":"}

RECURSIVE KeywordTokens(_)
\* keyword_tokens after the loop over keywords
KeywordTokens(keywords) ==
    IF keywords = <<>> THEN <<>>
    ELSE LET token == Strip(Head(keywords))
         IN  (IF token = <<>> THEN <<>>
              ELSE IF NeedsQuotes(token) THEN <<Quote \o token \o Quote>>
              ELSE <<token>>)
             \o KeywordTokens(Tail(keywords))

RECURSIVE FormTypeTokens(_)
\* [ft.strip() for ft in form_types if ft.strip()]
FormTypeTokens(form_types) ==
    IF form_types = <<>> THEN <<>>
    ELSE (IF Strip(Head(form_types)) = <<>> THEN <<>>
          ELSE <<Strip(Head(form_types))>>)
         \o FormTypeTokens(Tail(form_types))

\* as GroupClause, but the clause is appended whether or not items is empty
GroupClauseAlways(open, items) == <<open \o Join(Or, items) \o <<")">>>>

\* if items: clauses.append(open + " OR ".join(items) + ")")
GroupClause(open, items) ==
    IF items = <<>> THEN <<>> ELSE <<open \o Join(Or, items) \o <<")">>>>

\* as Clauses, but the keyword clause is appended before the country clause
ClausesKeywordFirst(params) ==
    <<DateClause(params.date_from, params.date_to)>>
        \o GroupClause(TitleOpen, KeywordTokens(Arg(params, "keywords")))
        \o GroupClause(<<"(">>, CountryClauses(Arg(params, "countries")))
        \o GroupClause(<<"(">>, CpvClauses(Arg(params, "cpv_prefixes")))
        \o GroupClause(FormTypeOpen, FormTypeTokens(Arg(params, "form_types")))

\* the list clauses when build_query reaches its return statement
Clauses(params) ==
    <<DateClause(params.date_from, params.date_to)>>
        \o GroupClause(<<"(">>, CountryClauses(Arg(params, "countries")))
        \o GroupClause(<<"(">>, CpvClauses(Arg(params, "cpv_prefixes")))
        \o GroupClause(TitleOpen, KeywordTokens(Arg(params, "keywords")))
        \o GroupClause(FormTypeOpen, FormTypeTokens(Arg(params, "form_types")))

\* build_query(date_from, date_to, countries, cpv_prefixes, keywords, form_types)
BuildQuery(params) == Join(And, Clauses(params))

\* the arguments callers give
Given(value) == [given |-> TRUE, value |-> value]
NotGiven == [given |-> FALSE]

DateFromInputs ==
    {[type |-> "str", value |-> <<"2", "0", "2", "5", "-", "0", "6", "-", "1", "8">>],
     [type |-> "date", year |-> 2025, month |-> 6, day |-> 18],
     [type |-> "datetime", year |-> 2025, month |-> 6, day |-> 18, hour |-> 13]}

DateToInputs ==
    {[type |-> "str", value |-> <<"2", "0", "2", "5", "-", "0", "9", "-", "1", "6">>],
     [type |-> "date", year |-> 2025, month |-> 9, day |-> 16]}

CountryInputs ==
    {NotGiven, Given(<<>>), Given(<<Blank>>), Given(<<EMPTY, <<" ", "f", "r", " ">>>>),
     Given(<<<<"D", "E">>, <<"F", "R">>>>), Given(<<<<"d", "e">>>>)}

CpvInputs ==
    {NotGiven, Given(<<>>), Given(<<EMPTY, Blank>>), Given(<<<<"3", "3", "*">>>>),
     Given(<<<<" ", "3", "8", "5", "1", " ">>, <<"3", "3", "*">>>>)}

KeywordInputs ==
    {NotGiven, Given(<<>>), Given(<<Blank>>),
     Given(<<<<"P", "C", "R">>, <<"r", "e", "a", "g", "e", "n", "t">>, <<"d", "i", "a", "g", "n", "o", "s", "t", "i", "c">>>>),
     Given(<<<<" ", "i", "n", " ", "v", "i", "t", "r", "o", " ">>, EMPTY>>), Given(<<<<"l", "o", "t", ":", "2">>, <<"P", "C", "R">>>>),
     Given(<<<<"i", "n", "\t", "v", "i", "t", "r", "o">>, <<"P", "C", "R">>>>)}

FormTypeInputs ==
    {NotGiven, Given(<<>>), Given(<<Blank, EMPTY>>), Given(<<<<"F", "1", "5">>>>),
     Given(<<<<" ", "F", "0", "2">>, <<"F", "1", "5">>>>)}

\* keyword arguments: one that is not given has no entry
Kw(name, input) == IF input.given THEN name :> input.value ELSE [k \in {} |-> <<>>]

QueryArgs ==
    {[date_from |-> d1, date_to |-> d2] @@ Kw("countries", c) @@ Kw("cpv_prefixes", p)
         @@ Kw("keywords", k) @@ Kw("form_types", f) :
       d1 \in DateFromInputs, d2 \in DateToInputs, c \in CountryInputs,
       p \in CpvInputs, k \in KeywordInputs, f \in FormTypeInputs}

NoArgs == [date_from |-> [type |-> "str", value |-> <<>>],
           date_to |-> [type |-> "str", value |-> <<>>]]

----------------------------------------------------------------------------
(* The settings parsers _parse_ted_config and _parse_sam_config, called on *)
(* their own.  A decoded JSON value is written [type, value]; a text is    *)
(* given character by character.                                            *)

JNull == [type |-> "null"]

JStr(text) == [type |-> "str", text |-> text]

JInt(n) == [type |-> "int", n |-> n]

\* a JSON array of strings
JList(texts) == [type |-> "list", items |-> texts]

JDict(d) == [type |-> "dict", entries |-> d]

\* data.get(key)
JGet(data, key) == IF key \in DOMAIN data THEN data[key] ELSE JNull

\* bool(value)
JTruthy(v) ==
    CASE v.type = "null" -> FALSE
      [] v.type = "str"  -> v.text # <<>>
      [] v.type = "int"  -> v.n # 0
      [] v.type = "list" -> v.items # <<>>
      [] v.type = "dict" -> DOMAIN v.entries # {}

\* data.get(key) or data.get(alias)
JGetOr(data, key, alias) ==
    IF JTruthy(JGet(data, key)) THEN JGet(data, key) ELSE JGet(data, alias)

\* isinstance(value, str) and value.strip()
NonBlankStr(v) == v.type = "str" /\ Strip(v.text) # <<>>

IsDigit(c) == \E i \in 1..Len(Digits) : Digits[i] = c

RECURSIVE DigitsValue(_)
DigitsValue(s) ==
    IF s = <<>> THEN 0
    ELSE 10 * DigitsValue(SubSeq(s, 1, Len(s) - 1))
            + (CHOOSE i \in 1..Len(Digits) : Digits[i] = s[Len(s)]) - 1

\* int(value): ok is FALSE where int raises TypeError or ValueError
IntOf(v) ==
    CASE v.type = "int" -> [ok |-> TRUE, n |-> v.n]
      [] v.type = "str" ->
           LET text   == Strip(v.text)
               signed == text # <<>> /\ Head(text) \in {"-", "+"}
               digits == IF signed THEN Tail(text) ELSE text
           IN  IF digits # <<>> /\ \A i \in 1..Len(digits) : IsDigit(digits[i])
               THEN [ok |-> TRUE,
                     n  |-> IF signed /\ Head(text) = "-"
                            THEN 0 - DigitsValue(digits) ELSE DigitsValue(digits)]
               ELSE [ok |-> FALSE, n |-> 0]
      [] OTHER -> [ok |-> FALSE, n |-> 0]

\* the try block around int(value): the number if value is given, converts
\* and is positive, else what the setting held
PositiveIntOr(v, default) ==
    IF v.type # "null" /\ IntOf(v).ok /\ IntOf(v).n > 0 THEN IntOf(v).n ELSE default

RECURSIVE SplitOn(_, _)
\* text.split(sep), for the separators in seps
SplitOn(text, seps) ==
    IF \E i \in 1..Len(text) : text[i] \in seps
    THEN LET k == CHOOSE i \in 1..Len(text) :
                      text[i] \in seps /\ \A j \in 1..(i - 1) : text[j] \notin seps
         IN  <<SubSeq(text, 1, k - 1)>> \o SplitOn(SubSeq(text, k + 1, Len(text)), seps)
    ELSE <<text>>

\* [part.strip() for part in parts if part.strip()]
StrippedNonBlank(parts) ==
    SelectSeq([i \in 1..Len(parts) |-> Strip(parts[i])], LAMBDA t : t # <<>>)

\* _split_tokens(raw)
SplitTokens(raw) == StrippedNonBlank(SplitOn(raw, {",", "\n"}))

\* _ensure_list(value)
EnsureList(v) ==
    CASE v.type = "list" -> StrippedNonBlank(v.items)
      [] v.type = "str"  -> SplitTokens(v.text)
      [] OTHER           -> <<>>

\* [value.upper() for value in values]
UpperAll(values) == [i \in 1..Len(values) |-> Upper(values[i])]

\* the defaults depend on the day the parser runs: today and today - 30 days
Today == <<"2", "0", "2", "4", "-", "0", "3", "-", "3", "1">>

LookbackStart == <<"2", "0", "2", "4", "-", "0", "3", "-", "0", "1">>

\* _default_ted_builder()
DefaultTedBuilder ==
    [date_from |-> LookbackStart, date_to |-> Today,
     countries |-> <<<<"D", "E">>, <<"F", "R">>>>, cpv_prefixes |-> <<<<"3", "3", "*">>>>,
     keywords |-> <<<<"P", "C", "R">>, <<"r", "e", "a", "g", "e", "n", "t">>, <<"d", "i", "a", "g", "n", "o", "s", "t", "i", "c">>>>, form_types |-> <<<<"F", "1", "5">>>>]

\* _build_query_from_builder(builder): an empty list is passed as None, which
\* build_query takes as it takes the empty list
BuildQueryFromBuilder(builder) ==
    BuildQuery([date_from    |-> [type |-> "str", value |-> builder.date_from],
                date_to      |-> [type |-> "str", value |-> builder.date_to],
                countries    |-> UpperAll(StrippedNonBlank(builder.countries)),
                cpv_prefixes |-> StrippedNonBlank(builder.cpv_prefixes),
                keywords     |-> StrippedNonBlank(builder.keywords),
                form_types   |-> UpperAll(StrippedNonBlank(builder.form_types))])

\* _default_ted_query(), the query build_query gives for the default builder
DefaultTedQuery == BuildQueryFromBuilder(DefaultTedBuilder)

\* search_query = ted_settings.get("query") or _default_ted_query()
SearchQuery(ted_settings) ==
    IF Truthy(ted_settings.query) THEN ted_settings.query ELSE DefaultTedQuery

\* DEFAULT_TED_FIELDS
DefaultTedFields == <<"DEFAULT_TED_FIELDS">>

\* the settings _parse_ted_config starts from
DefaultTedSettings ==
    [query |-> DefaultTedQuery, fields |-> DefaultTedFields, limit |-> 100,
     sort_field |-> <<"p", "u", "b", "l", "i", "c", "a", "t", "i", "o", "n", "-", "d", "a", "t", "e">>, sort_order |-> <<"D", "E", "S", "C">>,
     mode |-> <<"p", "a", "g", "e">>, page |-> 1]

\* _merge_ted_builder(base, overrides)
MergeTedBuilder(base, overrides) ==
    [key \in DOMAIN base |->
        IF key \in {"date_from", "date_to"}
        THEN IF NonBlankStr(JGet(overrides, key))
             THEN Strip(overrides[key].text) ELSE base[key]
        ELSE IF key \in DOMAIN overrides
        THEN IF key \in {"countries", "form_types"}
             THEN UpperAll(EnsureList(overrides[key]))
             ELSE EnsureList(overrides[key])
        ELSE base[key]]

\* the configuration text of a SearchConfig row: none (no row, NULL, ""),
\* a text json.loads rejects, or a JSON text with the value it decodes to
NoConfig == [kind |-> "none"]

PlainConfig(text) == [kind |-> "text", text |-> text]

JsonConfig(text, data) == [kind |-> "json", text |-> text, data |-> data]

\* the configuration is JSON for an object
IsDictConfig(config) == config.kind = "json" /\ config.data.type = "dict"

\* _parse_ted_config(config_text).  The query is never empty after the
\* overrides, so the closing 'if not settings.get("query")' changes nothing.
ParseTedConfig(config) ==
    IF config.kind = "none"
    THEN [settings |-> DefaultTedSettings, builder |-> DefaultTedBuilder]
    ELSE IF ~IsDictConfig(config)
    THEN [settings |-> [DefaultTedSettings EXCEPT !.query = config.text],
          builder  |-> DefaultTedBuilder]
    ELSE LET data       == config.data.entries
             fields     == IF JGet(data, "fields").type = "list"
                           THEN StrippedNonBlank(JGet(data, "fields").items) ELSE <<>>
             sort_field == JGetOr(data, "sort_field", "sortBy")
             sort_order == JGetOr(data, "sort_order", "order")
         IN  [settings |->
                [query      |-> IF NonBlankStr(JGet(data, "query"))
                                THEN JGet(data, "query").text ELSE DefaultTedQuery,
                 fields     |-> IF fields # <<>> THEN fields ELSE DefaultTedFields,
                 limit      |-> PositiveIntOr(JGet(data, "limit"), DefaultTedSettings.limit),
                 sort_field |-> IF NonBlankStr(sort_field)
                                THEN Strip(sort_field.text) ELSE DefaultTedSettings.sort_field,
                 sort_order |-> IF NonBlankStr(sort_order)
                                THEN Upper(Strip(sort_order.text))
                                ELSE DefaultTedSettings.sort_order,
                 mode       |-> IF NonBlankStr(JGet(data, "mode"))
                                THEN Strip(JGet(data, "mode").text)
                                ELSE DefaultTedSettings.mode,
                 page       |-> PositiveIntOr(JGet(data, "page"), DefaultTedSettings.page)],
              builder |-> IF JGet(data, "builder").type = "dict"
                          THEN MergeTedBuilder(DefaultTedBuilder, JGet(data, "builder").entries)
                          ELSE DefaultTedBuilder]

\* _default_sam_settings()
DefaultSamSettings ==
    [keywords |-> <<<<"P", "C", "R">>, <<"r", "e", "a", "g", "e", "n", "t">>, <<"d", "i", "a", "g", "n", "o", "s", "t", "i", "c">>>>,
     posted_from |-> LookbackStart, posted_to |-> Today,
     notice_types |-> <<>>, set_asides |-> <<>>, naics |-> <<>>,
     limit |-> 100, max_pages |-> 1, sort |-> <<"-", "m", "o", "d", "i", "f", "i", "e", "d", "D", "a", "t", "e">>]

\* settings[key] of _parse_sam_config for a JSON object
SamSetting(data, key) ==
    CASE key \in {"keywords", "notice_types", "set_asides", "naics"} ->
           IF EnsureList(JGet(data, key)) # <<>>
           THEN EnsureList(JGet(data, key)) ELSE DefaultSamSettings[key]
      [] key = "posted_from" ->
           IF NonBlankStr(JGetOr(data, "posted_from", "postedFrom"))
           THEN Strip(JGetOr(data, "posted_from", "postedFrom").text)
           ELSE DefaultSamSettings[key]
      [] key = "posted_to" ->
           IF NonBlankStr(JGetOr(data, "posted_to", "postedTo"))
           THEN Strip(JGetOr(data, "posted_to", "postedTo").text)
           ELSE DefaultSamSettings[key]
      [] key = "sort" ->
           IF NonBlankStr(JGet(data, "sort"))
           THEN Strip(JGet(data, "sort").text) ELSE DefaultSamSettings[key]
      [] key \in {"limit", "max_pages"} ->
           PositiveIntOr(JGet(data, key), DefaultSamSettings[key])

\* _parse_sam_config(config_text)
ParseSamConfig(config) ==
    IF config.kind = "none" THEN DefaultSamSettings
    ELSE IF ~IsDictConfig(config)
    THEN IF SplitTokens(config.text) # <<>>
         THEN [DefaultSamSettings EXCEPT !.keywords = SplitTokens(config.text)]
         ELSE DefaultSamSettings
    ELSE [key \in DOMAIN DefaultSamSettings |-> SamSetting(config.data.entries, key)]

\* an entry of a JSON object, or none
Absent == [type |-> "absent"]

Entry(key, v) == IF v.type = "absent" THEN <<>> ELSE key :> v

NumberInputs ==
    {Absent, JNull, JInt(50), JInt(0), JInt(0 - 5), JStr(<<" ", "2", "5", " ">>), JStr(<<"a", "b", "c">>),
     JStr(<<>>), JList(<<<<"7">>>>)}

TextInputs == {Absent, JStr(<<" ", "i", "t", "e", "r", "a", "t", "i", "o", "n", " ">>), JStr(<<" ", " ">>), JInt(3)}

OrderInputs ==
    {Entry("sort_order", JStr(<<"a", "s", "c">>)), Entry("order", JStr(<<"a", "s", "c">>)),
     Entry("sort_order", JStr(<<" ">>)), <<>>}

BuilderInputs ==
    {Absent, JStr(<<"D", "E">>),
     JDict("countries" :> JList(<<<<"i", "t">>, <<" ">>>>)),
     JDict("date_from" :> JStr(<<" ", "2", "0", "2", "4", "-", "0", "2", "-", "0", "1", " ">>) @@ "date_to" :> JStr(<<" ">>)),
     JDict("keywords" :> JStr(<<"p", "c", "r", ",", " ", "k", "i", "t">>)),
     JDict("countries" :> JStr(<<>>)),
     JDict("cpv_prefixes" :> JNull)}

QueryInputs == {Absent, JStr(<<"t", "i", "t", "l", "e", ":", "k", "i", "t">>), JStr(<<" ">>)}

TedConfigs ==
    {NoConfig, PlainConfig(<<"P", "C", "R">>), JsonConfig(<<"5">>, JInt(5))}
      \cup {JsonConfig(<<"{...}">>,
                JDict(Entry("limit", l) @@ Entry("page", p) @@ Entry("mode", m)
                        @@ o @@ Entry("builder", b) @@ Entry("query", q))) :
              l \in NumberInputs, p \in {Absent, JStr(<<"3">>), JInt(0)},
              m \in TextInputs, o \in OrderInputs, b \in BuilderInputs,
              q \in QueryInputs}

SamConfigs ==
    {NoConfig, PlainConfig(<<"P", "C", "R", ",", " ", "k", "i", "t">>), PlainConfig(<<" ", ",", " ">>), JsonConfig(<<"5">>, JInt(5))}
      \cup {JsonConfig(<<"{...}">>,
                JDict(Entry("limit", l) @@ Entry("max_pages", p) @@ Entry("sort", s)
                        @@ Entry("keywords", k) @@ f)) :
              l \in NumberInputs, p \in {Absent, JStr(<<"3">>), JInt(0)},
              s \in TextInputs,
              k \in {Absent, JStr(<<>>), JStr(<<"p", "c", "r", ",", " ", "k", "i", "t">>), JList(<<<<" ", "s", "w", "a", "b", " ">>>>), JNull},
              f \in {<<>>, Entry("postedFrom", JStr(<<"2", "0", "2", "4", "-", "0", "2", "-", "0", "1">>)),
                     Entry("posted_from", JStr(<<" ">>))}}

\* a settings parser has been called with a configuration text
SettingsParserCalled ==
    \/ \E config \in TedConfigs :
         call = [fn |-> "_parse_ted_config", config |-> config, returned |-> FALSE]
    \/ \E config \in SamConfigs :
         call = [fn |-> "_parse_sam_config", config |-> config, returned |-> FALSE]

\* settings, builder = _parse_ted_config(config_text)
ParseTedConfigCall ==
    /\ call.fn = "_parse_ted_config" /\ ~call.returned
    /\ call' = [fn |-> call.fn, config |-> call.config, returned |-> TRUE,
                settings |-> ParseTedConfig(call.config).settings,
                builder |-> ParseTedConfig(call.config).builder]
    /\ UNCHANGED <<storeVars, crawlVars, args, query, calls, it, boot>>

\* settings = _parse_sam_config(config_text)
ParseSamConfigCall ==
    /\ call.fn = "_parse_sam_config" /\ ~call.returned
    /\ call' = [fn |-> call.fn, config |-> call.config, returned |-> TRUE,
                settings |-> ParseSamConfig(call.config)]
    /\ UNCHANGED <<storeVars, crawlVars, args, query, calls, it, boot>>

NextSettings == ParseTedConfigCall \/ ParseSamConfigCall

----------------------------------------------------------------------------
(* The two retry policies: _perform_request of ted_client under its retry  *)
(* decorator, and a request of the crawler's session through the adapter   *)
(* that __init__ mounts.  A server answers every attempt with a status, or *)
(* the connection fails.                                                    *)

\* MAX_RETRIES of ted_client
MaxRetries == 5

\* Retry(total=5, ...)
RetryTotal == 5

\* status_forcelist of the Retry that __init__ builds
StatusForcelist == {500, 502, 503, 504}

\* Retry.RETRY_AFTER_STATUS_CODES of urllib3
RetryAfterStatusCodes == {413, 429, 503}

HttpAnswer(status, retry_after, json) ==
    [error |-> FALSE, status |-> status, retry_after |-> retry_after, json |-> json]

\* the request raises a requests.RequestException and there is no response
ConnectionError == [error |-> TRUE, status |-> 0, retry_after |-> FALSE, json |-> FALSE]

HttpAnswers ==
    {ConnectionError, HttpAnswer(200, FALSE, FALSE), HttpAnswer(429, TRUE, TRUE),
     HttpAnswer(413, TRUE, TRUE)}
      \cup {HttpAnswer(status, FALSE, TRUE) : status \in {200, 404, 429, 500, 501, 503}}

\* response.status_code in {429} or 500 <= response.status_code < 600
TedTransient(status) == status = 429 \/ (500 =< status /\ status < 600)

\* what one run of the body of _perform_request ends with
PerformRequestOutcome(answer) ==
    IF answer.error THEN "RequestException"
    ELSE IF TedTransient(answer.status) THEN "TedTransientError"
    ELSE IF answer.status # 200 THEN "TedHTTPError"
    ELSE IF ~answer.json THEN "ResponseDecodeError"
    ELSE "return"

\* retry_if_exception_type((requests.RequestException, TedTransientError))
TenacityRetries(outcome) == outcome \in {"RequestException", "TedTransientError"}

\* _perform_request(payload) or a request of self.session has been called.
\* The retry of _tenacity is the one of the tenacity package where the
\* package is installed, else the decorator of the module, which calls the
\* function once.
RequestCalled ==
    \/ \E tenacity \in BOOLEAN :
         call = [fn |-> "_perform_request", tenacity |-> tenacity,
                 received |-> <<>>, state |-> "calling", outcome |-> "none"]
    \/ call = [fn |-> "session.request", received |-> <<>>, state |-> "calling",
               outcome |-> "none"]

\* one attempt of _perform_request: stop_after_attempt(MAX_RETRIES) and
\* reraise=True end the call with the exception of the last attempt
PerformRequestAttempt ==
    /\ call.fn = "_perform_request" /\ call.state = "calling"
    /\ \E answer \in HttpAnswers :
         LET outcome  == PerformRequestOutcome(answer)
             attempts == Len(call.received) + 1
         IN  call' = [call EXCEPT
                 !.received = Append(call.received, answer),
                 !.outcome  = outcome,
                 !.state    = IF outcome = "return" THEN "returned"
                              ELSE IF call.tenacity /\ TenacityRetries(outcome)
                                        /\ attempts < MaxRetries
                              THEN "calling" ELSE "raised"]
    /\ UNCHANGED <<storeVars, crawlVars, args, query, calls, it, boot>>

\* Retry.is_retry of urllib3 for a GET or POST, with total retries left
IsRetry(answer, total) ==
    \/ answer.status \in StatusForcelist
    \/ total # 0 /\ answer.retry_after /\ answer.status \in RetryAfterStatusCodes

\* one attempt of a GET or POST of self.session: the adapter asks the Retry
\* of __init__ whether to send the request again; Retry.increment raises
\* once total falls below zero, which requests hands on as RetryError or
\* ConnectionError; a response that is not retried is returned as it is
SessionRequestAttempt ==
    /\ call.fn = "session.request" /\ call.state = "calling"
    /\ \E answer \in HttpAnswers :
         LET total == RetryTotal - Len(call.received)
             again == answer.error \/ IsRetry(answer, total)
         IN  call' = [call EXCEPT
                 !.received = Append(call.received, answer),
                 !.outcome  = IF ~again THEN "return"
                              ELSE IF answer.error THEN "ConnectionError"
                              ELSE "RetryError",
                 !.state    = IF ~again THEN "returned"
                              ELSE IF total - 1 < 0 THEN "raised" ELSE "calling"]
    /\ UNCHANGED <<storeVars, crawlVars, args, query, calls, it, boot>>

NextRetry == PerformRequestAttempt \/ SessionRequestAttempt

----------------------------------------------------------------------------
(* _request_with_iteration_token of ted_client called on its own.  Every   *)
(* _perform_request it makes ends with a payload or with an exception.     *)

\* token_params
TokenParams == <<"page-token", "next-page-token", "iteration-token", "page">>

\* what a call of _perform_request ends with
Outcome(kind, status) == [kind |-> kind, status |-> status]

PerformRequestOutcomes ==
    {Outcome("return", 200), Outcome("ResponseDecodeError", 200),
     Outcome("RequestException", 0), Outcome("TedTransientError", 429),
     Outcome("TedTransientError", 503)}
      \cup {Outcome("TedHTTPError", status) : status \in {400, 401, 404, 422}}

\* as MovesOn, but any TedHTTPError below 500 makes the loop go on
MovesOnAnyClientError(outcome, token_param) ==
    /\ outcome.kind = "TedHTTPError"
    /\ outcome.status < 500 /\ token_param # "page"

\* except TedHTTPError as exc:
\*     if exc.status_code in {400, 422} and token_param != "page": continue
MovesOn(outcome, token_param) ==
    /\ outcome.kind \in {"TedHTTPError", "TedTransientError"}
    /\ outcome.status \in {400, 422} /\ token_param # "page"

\* _request_with_iteration_token(params, iteration_token) has been called
RequestWithIterationTokenCalled ==
    \E token \in {NULL, EMPTY, TokenA} :
        call = [fn |-> "_request_with_iteration_token", iteration_token |-> token,
                tried |-> <<>>, state |-> "calling", raised |-> 0]

\* one _perform_request of the function: the only one when there is no
\* token, else the next pass of the loop over token_params.  The pass for
\* "page" returns or raises, so the statements after the loop are never
\* reached.
RequestWithIterationTokenAttempt ==
    /\ call.fn = "_request_with_iteration_token" /\ call.state = "calling"
    /\ \E outcome \in PerformRequestOutcomes :
         LET attempt     == Len(call.tried) + 1
             token_param == IF Truthy(call.iteration_token)
                            THEN TokenParams[attempt] ELSE "none"
             goes_on     == Truthy(call.iteration_token) /\ MovesOn(outcome, token_param)
         IN  call' = [call EXCEPT
                 !.tried  = Append(call.tried,
                                   [token_param |-> token_param, outcome |-> outcome]),
                 !.state  = IF outcome.kind = "return" THEN "returned"
                            ELSE IF goes_on THEN "calling" ELSE "raised",
                 !.raised = IF outcome.kind # "return" /\ ~goes_on THEN attempt ELSE 0]
    /\ UNCHANGED <<storeVars, crawlVars, args, query, calls, it, boot>>

NextToken == RequestWithIterationTokenAttempt

----------------------------------------------------------------------------
(* _post_ungm_search called on its own, with the tokens a bootstrap gave.  *)
(* The server answers every POST with a status and a body, or the POST     *)
(* raises.                                                                  *)

\* a response: its status and whether its body holds "FileNotFound"
PostResponse(status, file_not_found) ==
    [raises |-> FALSE, status |-> status, file_not_found |-> file_not_found]

\* session.post raises a RequestException: there is no response
PostRaises == [raises |-> TRUE, status |-> 0, file_not_found |-> FALSE]

PostAnswers ==
    {PostRaises}
      \cup {PostResponse(status, file_not_found) :
              status \in {200, 302, 400, 403, 404, 500}, file_not_found \in BOOLEAN}

\* response.ok
ResponseOk(response) == response.status < 400

\* as PostHeaders, but the form token alone is always tried as well
PostHeadersAlwaysTwo(token, cookie) ==
    IF Truthy(cookie) THEN <<cookie \o <<":">> \o token, token>> ELSE <<token, token>>

\* the values of the header RequestVerificationToken of the list attempts:
\* "json-cookie", and "json-simple" where it differs
PostHeaders(token, cookie) ==
    IF Truthy(cookie) THEN <<cookie \o <<":">> \o token, token>> ELSE <<token>>

\* if response.status_code == 404 and "FileNotFound" in body: continue
SearchGoesOn(response) ==
    ~response.raises /\ response.status = 404 /\ response.file_not_found

\* the locals of a call of _post_ungm_search that has sent nothing yet
PostCall(token, cookie) ==
    [fn |-> "_post_ungm_search", verification_token |-> token,
     verification_cookie |-> cookie, sent |-> <<>>, state |-> "calling",
     cause |-> "none"]

\* _post_ungm_search(url, referer_url, payload, token, cookie) has been called
PostUngmSearchCalled ==
    \E token \in {FormA, FormB}, cookie \in {NULL, EMPTY, CookieA, CookieB} :
        call = PostCall(token, cookie)

\* the call after one more pass of 'for attempt_name, headers in attempts'
\* that the server answers with response: the POST carries the payload with
\* __RequestVerificationToken set; after the last attempt
\* last_response.raise_for_status() raises
PostAttempt(locals, response) ==
    LET headers == PostHeaders(locals.verification_token, locals.verification_cookie)
        attempt == Len(locals.sent) + 1
        post    == [header |-> headers[attempt],
                    payload_token |-> locals.verification_token,
                    response |-> response]
    IN  [locals EXCEPT
            !.sent  = Append(locals.sent, post),
            !.state = IF response.raises THEN "raised"
                      ELSE IF ResponseOk(response) THEN "returned"
                      ELSE IF SearchGoesOn(response) /\ attempt < Len(headers)
                      THEN "calling" ELSE "raised",
            !.cause = IF response.raises THEN "request_exception"
                      ELSE IF ResponseOk(response) THEN "none"
                      ELSE IF SearchGoesOn(response)
                      THEN IF attempt < Len(headers) THEN "none" ELSE "file_not_found"
                      ELSE "http_error"]

\* one POST of _post_ungm_search
PostUngmSearchAttempt ==
    /\ call.fn = "_post_ungm_search" /\ call.state = "calling"
    /\ \E response \in PostAnswers : call' = PostAttempt(call, response)
    /\ UNCHANGED <<storeVars, crawlVars, args, query, calls, it, boot>>

NextPost == PostUngmSearchAttempt

----------------------------------------------------------------------------
(* How crawl_ungm tells a JSON response from an HTML one.  A body is given *)
(* character by character, or as bytes byte by byte.                        *)

\* the longest body
MaxBody == 3

BodyChars == {" ", "\n", "{", "[", "<", "x"}

\* the bytes of these characters in UTF-8, and 255, which no UTF-8 text holds
BodyBytes == {32, 10, 123, 91, 60, 120, 255}

\* the character a byte stands for in UTF-8 (and in latin-1)
CharOfByte(b) ==
    CASE b = 32 -> " " [] b = 10 -> "\n" [] b = 123 -> "{" [] b = 91 -> "["
      [] b = 60 -> "<" [] b = 120 -> "x" [] b = 255 -> "U+00FF"

\* value.decode("utf-8"), and value.decode("latin-1") where that raises
DecodeBytes(codes) == [i \in 1..Len(codes) |-> CharOfByte(codes[i])]

\* _coerce_text(value)
CoerceText(value) ==
    CASE value.type = "str"   -> value.chars
      [] value.type = "bytes" -> DecodeBytes(value.codes)
      [] value.type = "none"  -> <<>>

\* as LooksLikeJson, but only the header decides
LooksLikeJsonByHeader(content_type, body_preview) ==
    Contains(content_type, <<"a", "p", "p", "l", "i", "c", "a", "t", "i", "o", "n", "/", "j", "s", "o", "n">>)

\* "application/json" in content_type or body_preview.startswith("{")
\*     or body_preview.startswith("[")
LooksLikeJson(content_type, body_preview) ==
    \/ Contains(content_type, <<"a", "p", "p", "l", "i", "c", "a", "t", "i", "o", "n", "/", "j", "s", "o", "n">>)
    \/ body_preview # <<>> /\ Head(body_preview) \in {"{", "["}

\* the branch crawl_ungm takes for a response: response.json() and
\* _process_ungm_json, or BeautifulSoup
ClassifyUngmResponse(response) ==
    LET content_type == Lower(IF Truthy(response.content_type)
                              THEN response.content_type ELSE <<>>)
        body_preview == LStrip(CoerceText(response.text))
    IN  IF LooksLikeJson(content_type, body_preview) THEN "json" ELSE "html"

ContentTypes ==
    {NULL, <<"t", "e", "x", "t", "/", "h", "t", "m", "l">>, <<"t", "e", "x", "t", "/", "h", "t", "m", "l", ";", " ", "c", "h", "a", "r", "s", "e", "t", "=", "u", "t", "f", "-", "8">>, <<"a", "p", "p", "l", "i", "c", "a", "t", "i", "o", "n", "/", "j", "s", "o", "n">>,
     <<"A", "p", "p", "l", "i", "c", "a", "t", "i", "o", "n", "/", "J", "S", "O", "N", ";", " ", "c", "h", "a", "r", "s", "e", "t", "=", "u", "t", "f", "-", "8">>}

SeqsUpTo(S, n) == UNION {[1..k -> S] : k \in 0..n}

\* crawl_ungm holds the response of the search
UngmResponseReceived ==
    \E content_type \in ContentTypes :
        \/ \E chars \in SeqsUpTo(BodyChars, MaxBody) :
             call = [fn |-> "classify_ungm_response", state |-> "received",
                     response |-> [content_type |-> content_type,
                                   text |-> [type |-> "str", chars |-> chars]],
                     parsed_as |-> <<>>]
        \/ \E codes \in SeqsUpTo(BodyBytes, MaxBody) :
             call = [fn |-> "classify_ungm_response", state |-> "received",
                     response |-> [content_type |-> content_type,
                                   text |-> [type |-> "bytes", codes |-> codes]],
                     parsed_as |-> <<>>]

\* the if statement after the search: one branch is taken, and either
\* branch ends in a return
UngmClassify ==
    /\ call.fn = "classify_ungm_response" /\ call.state = "received"
    /\ call' = [call EXCEPT !.state = "parsed",
                            !.parsed_as = Append(call.parsed_as,
                                                 ClassifyUngmResponse(call.response))]
    /\ UNCHANGED <<storeVars, crawlVars, args, query, calls, it, boot>>

NextClassify == UngmClassify

----------------------------------------------------------------------------
(* Which list of a JSON payload holds the records: _extract_results of the *)
(* TED models and the head of _process_ungm_json, called on their own.     *)

\* a JSON value that is a list of records, and one that is not a list
ListOf(records) == [list |-> TRUE, records |-> records]

NotAList == [list |-> FALSE, records |-> <<>>]

RECURSIVE FirstList(_, _)
\* for key in keys: value = payload.get(key); the first value that is a list,
\* and otherwise no records
FirstList(payload, keys) ==
    IF keys = <<>> THEN <<>>
    ELSE IF Head(keys) \in DOMAIN payload /\ payload[Head(keys)].list
    THEN payload[Head(keys)].records
    ELSE FirstList(payload, Tail(keys))

\* the keys _extract_results looks under
TedContainerKeys == <<"results", "items", "notices", "data">>

\* _extract_results(payload)
ExtractResults(payload) == FirstList(payload, TedContainerKeys)

\* the keys _process_ungm_json looks under
UngmContainerKeys ==
    <<"items", "results", "data", "notices", "Notices", "records", "Records",
      "rows", "Rows">>

\* records of _process_ungm_json: of a dict the first list under the keys,
\* a list itself, and of anything else nothing (return 0)
UngmRecordsOf(payload) ==
    CASE payload.type = "dict" -> FirstList(payload.entries, UngmContainerKeys)
      [] payload.type = "list" -> payload.records
      [] OTHER                 -> <<>>

RecordA == [Title |-> <<"A">>]

RecordB == [Title |-> <<"B">>]

ContainerValues == {ListOf(<<RecordA>>), ListOf(<<RecordB>>), NotAList}

\* the entry of a dict under key, none for Absent
Under(key, v) == IF v = Absent THEN <<>> ELSE key :> v

\* the dicts that hold some of the keys results, items, notices, data, rows
ContainerPayloads ==
    {Under("results", r) @@ Under("items", i) @@ Under("notices", n)
        @@ Under("data", d) @@ Under("rows", w) :
       r \in ContainerValues \cup {Absent}, i \in ContainerValues \cup {Absent},
       n \in {ListOf(<<RecordA>>), NotAList, Absent},
       d \in {ListOf(<<RecordB>>), Absent}, w \in {ListOf(<<RecordA>>), Absent}}

\* a decoded payload is at hand
ExtractionCalled ==
    \/ \E payload \in ContainerPayloads :
         \/ call = [fn |-> "_extract_results", payload |-> payload, state |-> "called"]
         \/ call = [fn |-> "_process_ungm_json", state |-> "called",
                    payload |-> [type |-> "dict", entries |-> payload]]
    \/ call = [fn |-> "_process_ungm_json", state |-> "called",
               payload |-> [type |-> "list", records |-> <<RecordA, RecordB>>]]
    \/ call = [fn |-> "_process_ungm_json", state |-> "called",
               payload |-> [type |-> "str"]]

\* return value of _extract_results(payload)
ExtractResultsCall ==
    /\ call.fn = "_extract_results" /\ call.state = "called"
    /\ call' = [fn |-> call.fn, payload |-> call.payload, state |-> "returned",
                records |-> ExtractResults(call.payload)]
    /\ UNCHANGED <<storeVars, crawlVars, args, query, calls, it, boot>>

\* the records _process_ungm_json goes through
UngmRecordsCall ==
    /\ call.fn = "_process_ungm_json" /\ call.state = "called"
    /\ call' = [fn |-> call.fn, payload |-> call.payload, state |-> "returned",
                records |-> UngmRecordsOf(call.payload)]
    /\ UNCHANGED <<storeVars, crawlVars, args, query, calls, it, boot>>

NextExtract == ExtractResultsCall \/ UngmRecordsCall

----------------------------------------------------------------------------
(* Two crawl_all runs at once: the scheduler's thread and the thread of a  *)
(* POST /api/crawl request.  'session' is a scoped_session: each thread    *)
(* has its own session and connection to the one SQLite file, and the      *)
(* database lets one connection write at a time.  A run is given by the    *)
(* records its three crawls hand to save_to_db, in order.                  *)

Triggers == {"timed", "manual"}

\* records the two runs find: the same notice with other fields, and another
OverlapRecords ==
    {TenderData(UNGM, <<"R1">>, <<"T1">>, EMPTY, <<"2024-01-01">>, NULL, EMPTY, EMPTY, EMPTY, NULL),
     TenderData(UNGM, <<"R1">>, <<"T2">>, EMPTY, NULL, NULL, EMPTY, EMPTY, EMPTY, NULL),
     TenderData(UNGM, <<"R2">>, <<"T1">>, EMPTY, NULL, NULL, EMPTY, EMPTY, EMPTY, NULL),
     TenderData(UNGM, <<"R1">>, NULL, EMPTY, NULL, NULL, EMPTY, EMPTY, EMPTY, NULL)}

OverlapRuns == {<<d>> : d \in OverlapRecords} \cup {<<d, e>> : d, e \in OverlapRecords}

\* a run between two save_to_db calls
RunBetweenSaves(records, saved) == [at |-> "idle", pending |-> records, saved |-> saved]

\* scheduler.add_job(func=crawl_all, ...) fires while manual_crawl() runs
\* crawl_all, or the other way round
CrawlAllCalledTwice ==
    \E timed \in OverlapRuns, manual \in OverlapRuns :
        call = [fn |-> "crawl_all",
                runs |-> [t \in Triggers |->
                            RunBetweenSaves(IF t = "timed" THEN timed ELSE manual, 0)],
                committed |-> {}]

\* another thread's connection holds the write lock of the database
LockedByOther(t) == \E u \in Triggers \ {t} : call.runs[u].at = "executed"

\* data = dict(tender_data); data["last_updated"] = datetime.utcnow()
OverlapStamp(t) ==
    /\ call.fn = "crawl_all"
    /\ call.runs[t].at = "idle" /\ call.runs[t].pending # <<>>
    /\ call' = [call EXCEPT !.runs[t] =
                   [at |-> "stamped", pending |-> Tail(call.runs[t].pending),
                    saved |-> call.runs[t].saved,
                    data |-> StampedData(Head(call.runs[t].pending), clock)]]
    /\ clock' = clock + 1
    /\ UNCHANGED <<tenders, lastSave, upserted, crawlVars, args, query, calls, it, boot>>

\* session.execute(stmt): the statement takes the write lock and upserts in
\* this thread's transaction; or it raises (the store is not reachable, the
\* table does not accept the row, the database is locked by the other
\* thread), and 'except Exception' rolls back and returns False
OverlapExecute(t) ==
    /\ call.fn = "crawl_all"
    /\ call.runs[t].at = "stamped"
    /\ \E available \in BOOLEAN :
          call' = [call EXCEPT !.runs[t] =
                     IF available /\ ~LockedByOther(t) /\ StoreAccepts(call.runs[t].data)
                     THEN [at |-> "executed", pending |-> call.runs[t].pending,
                           saved |-> call.runs[t].saved, data |-> call.runs[t].data,
                           txn |-> Upsert(tenders, call.runs[t].data)]
                     ELSE RunBetweenSaves(call.runs[t].pending, call.runs[t].saved)]
    /\ UNCHANGED <<storeVars, crawlVars, args, query, calls, it, boot>>

\* session.commit(); return True
OverlapCommit(t) ==
    /\ call.fn = "crawl_all"
    /\ call.runs[t].at = "executed"
    /\ tenders' = call.runs[t].txn
    /\ upserted' = upserted \cup {KeyOf(call.runs[t].data)}
    /\ call' = [call EXCEPT !.runs[t] = RunBetweenSaves(call.runs[t].pending,
                                                        call.runs[t].saved + 1),
                            !.committed = @ \cup {call.runs[t].data}]
    /\ UNCHANGED <<clock, lastSave, crawlVars, args, query, calls, it, boot>>

NextOverlap == \E t \in Triggers : OverlapStamp(t) \/ OverlapExecute(t) \/ OverlapCommit(t)

----------------------------------------------------------------------------
(* crawl_ungm request by request: its bootstraps run GET by GET and its    *)
(* searches POST by POST.  A request is one session.get or session.post    *)
(* call of the crawler; what the adapter mounted on the session sends      *)
(* again within such a call is the transport's.  cur tallies the            *)
(* bootstraps and search calls of the crawl, the GETs of the running       *)
(* bootstrap and the POSTs of the running search call.                     *)

NoRequestsYet == [bootstraps |-> 0, searches |-> 0, gets |-> 0, posts |-> 0]

\* what the request-by-request steps leave alone
ungmFrame == <<storeVars, pending, count, result, raisedBy, lastRaw, environ, http,
               log, args, query, calls, it>>

\* crawl_ungm has called _bootstrap_ungm_tokens for the first time
CrawlUngmCalled ==
    /\ pc = "bootstrap"
    /\ cur = [NoRequestsYet EXCEPT !.bootstraps = 1]
    /\ pending = <<>> /\ count = 0 /\ result = <<>>
    /\ raisedBy = NoRaise /\ lastRaw = NoRaw /\ environ = NoEnviron
    /\ http = NoHttp /\ log = NoLog
    /\ BootstrapCalled
    /\ call = NoLibCall

\* bootstrap_response = self.session.get(bootstrap_url, timeout=30)
UngmGet ==
    /\ pc \in {"bootstrap", "retry_bootstrap"}
    /\ BootstrapRound
    /\ cur' = [cur EXCEPT !.gets = cur.gets + 1]
    /\ UNCHANGED <<pc, call, ungmFrame>>

\* the statements of _bootstrap_ungm_tokens after its loop
UngmBootstrapEnd ==
    /\ pc \in {"bootstrap", "retry_bootstrap"}
    /\ BootstrapEnd
    /\ UNCHANGED <<pc, cur, call, ungmFrame>>

\* the bootstrap raised: 'except Exception: return 0', on the first
\* bootstrap and on the one of the retry
UngmBootstrapFailed ==
    /\ pc \in {"bootstrap", "retry_bootstrap"}
    /\ boot.state = "raised"
    /\ pc' = "return_0"
    /\ UNCHANGED <<cur, boot, call, ungmFrame>>

\* response = self._post_ungm_search(url, referer_url, payload,
\*                                   verification_token, verification_cookie)
UngmSearch ==
    /\ pc \in {"bootstrap", "retry_bootstrap"}
    /\ boot.state = "returned"
    /\ call' = PostCall(boot.verification_token, boot.verification_cookie)
    /\ cur' = [cur EXCEPT !.searches = cur.searches + 1, !.posts = 0]
    /\ pc' = IF pc = "bootstrap" THEN "search" ELSE "retry_search"
    /\ UNCHANGED <<boot, ungmFrame>>

\* response = self.session.post(url, data=payload_with_token, headers=headers)
UngmPostAttempt ==
    /\ pc \in {"search", "retry_search"}
    /\ call.state = "calling"
    /\ \E response \in PostAnswers : call' = PostAttempt(call, response)
    /\ cur' = [cur EXCEPT !.posts = cur.posts + 1]
    /\ UNCHANGED <<pc, boot, ungmFrame>>

\* _post_ungm_search has returned a response, or raised: an HTTPError of the
\* first search for a 404 FileNotFound page starts the second bootstrap, on
\* the session as the first one left it; any other exception, and any
\* exception of the second search, makes crawl_ungm return 0
UngmSearchEnd ==
    /\ pc \in {"search", "retry_search"}
    /\ call.state # "calling"
    /\ IF call.state = "returned"
       THEN pc' = "response" /\ UNCHANGED <<cur, boot, call>>
       ELSE IF pc = "search" /\ ShouldRetryUngm(call.cause)
       THEN /\ pc' = "retry_bootstrap"
            /\ \E script \in [1..Len(BootstrapUrls) -> BootstrapAnswers] :
                  boot' = [NoBoot EXCEPT !.state = "get", !.script = script,
                                         !.at = 1, !.jar = boot.jar]
            /\ cur' = [cur EXCEPT !.bootstraps = cur.bootstraps + 1, !.gets = 0]
            /\ call' = NoLibCall
       ELSE pc' = "return_0" /\ UNCHANGED <<cur, boot, call>>
    /\ UNCHANGED ungmFrame

NextUngm ==
    \/ UngmGet \/ UngmBootstrapEnd \/ UngmBootstrapFailed
    \/ UngmSearch \/ UngmPostAttempt \/ UngmSearchEnd

\* build_query is not called
InitNoQuery ==
    /\ args = NoArgs
    /\ query = NULL
    /\ calls = 0

InitQuery ==
    /\ InitStore /\ InitCrawl
    /\ it = NoIter
    /\ boot = NoBoot
    /\ call = NoLibCall
    /\ args \in QueryArgs
    /\ query = NULL
    /\ calls = 0

\* query = build_query(**args)
BuildQueryCall ==
    /\ calls < MaxCalls
    /\ query' = BuildQuery(args)
    /\ calls' = calls + 1
    /\ UNCHANGED <<args, it, boot, call, storeVars, crawlVars>>

NextQuery == BuildQueryCall

\* no library function is called on its own
InitNoLib == it = NoIter /\ boot = NoBoot /\ call = NoLibCall

Init == InitStore /\ InitCrawl /\ InitNoQuery /\ InitNoLib

Next ==
    \/ CrawlAllStart
    \/ UngmConfig \/ UngmBootstrap \/ UngmPost \/ UngmRetry \/ UngmParse
    \/ UngmJsonRecord \/ UngmHtmlRow \/ UngmDone
    \/ Sleep1
    \/ SamStart \/ SamFetch \/ SamRecord \/ SamPageEnd
    \/ Sleep2
    \/ TedStart \/ TedExecute \/ TedRetry \/ TedRecord \/ TedNextBatch \/ TedDone
    \/ CrawlAllReturn

Spec == Init /\ [][Next]_vars

SpecStore == Init /\ [][NextStore]_vars

SpecQuery == InitQuery /\ [][NextQuery]_vars

InitIter == InitStore /\ InitCrawl /\ InitNoQuery /\ IterateAllCalled /\ boot = NoBoot /\ call = NoLibCall

SpecIter == InitIter /\ [][NextIter]_vars

InitBootstrap == InitStore /\ InitCrawl /\ InitNoQuery /\ it = NoIter /\ BootstrapCalled /\ call = NoLibCall

SpecBootstrap == InitBootstrap /\ [][NextBootstrap]_vars

InitSettings == InitStore /\ InitCrawl /\ InitNoQuery /\ it = NoIter /\ boot = NoBoot /\ SettingsParserCalled

SpecSettings == InitSettings /\ [][NextSettings]_vars

InitRetry == InitStore /\ InitCrawl /\ InitNoQuery /\ it = NoIter /\ boot = NoBoot /\ RequestCalled

SpecRetry == InitRetry /\ [][NextRetry]_vars

InitToken == InitStore /\ InitCrawl /\ InitNoQuery /\ it = NoIter /\ boot = NoBoot /\ RequestWithIterationTokenCalled

SpecToken == InitToken /\ [][NextToken]_vars

InitPost == InitStore /\ InitCrawl /\ InitNoQuery /\ it = NoIter /\ boot = NoBoot /\ PostUngmSearchCalled

SpecPost == InitPost /\ [][NextPost]_vars

InitClassify == InitStore /\ InitCrawl /\ InitNoQuery /\ it = NoIter /\ boot = NoBoot /\ UngmResponseReceived

SpecClassify == InitClassify /\ [][NextClassify]_vars

InitExtract == InitStore /\ InitCrawl /\ InitNoQuery /\ it = NoIter /\ boot = NoBoot /\ ExtractionCalled

SpecExtract == InitExtract /\ [][NextExtract]_vars

InitOverlap == InitStore /\ InitCrawl /\ InitNoQuery /\ it = NoIter /\ boot = NoBoot /\ CrawlAllCalledTwice

SpecOverlap == InitOverlap /\ [][NextOverlap]_vars

InitUngm == InitStore /\ InitNoQuery /\ it = NoIter /\ CrawlUngmCalled

SpecUngm == InitUngm /\ [][NextUngm]_vars

----------------------------------------------------------------------------
(* Claims about the persistence gateway *)

Keys == {<<r.site, r.reference_no>> : r \in tenders}

\* C1: after any sequence of save_to_db calls the table holds at most one
\* row per (site, reference_no), and exactly one row for every pair that
\* save_to_db has returned True for.
C1_OneRowPerKey ==
    /\ \A k \in Keys : Cardinality(RowsOf(tenders, k)) = 1
    /\ \A k \in upserted : Cardinality(RowsOf(tenders, k)) = 1

\* two keys are stored, and the last call updated a row that was there
C1_Witness ==
    /\ Cardinality(upserted) >= 2
    /\ lastSave.called /\ lastSave.ok /\ lastSave.before # {}

\* the last call succeeded on a record whose every field already was the
\* stored row's: the same record upserted again
SameRecordAgain ==
    /\ lastSave.called /\ lastSave.ok
    /\ lastSave.before # {}
    /\ \A b \in lastSave.before :
          \A c \in DOMAIN lastSave.arg \ {"last_updated"} : b[c] = lastSave.arg[c]

\* C2: upserting the same record again leaves exactly one row for its key,
\* and last_updated advances: the row carries the second write's time, which
\* is later than the time the first write left.
C2_IdempotentUpsert ==
    SameRecordAgain =>
        /\ Cardinality(RowsOf(tenders, KeyOf(lastSave.arg))) = 1
        /\ \A r \in RowsOf(tenders, KeyOf(lastSave.arg)) :
              /\ r.last_updated = lastSave.stamp
              /\ \A b \in lastSave.before :
                    b.last_updated < r.last_updated /\ b.id = r.id

C2_Witness == SameRecordAgain

\* C3: after a successful save_to_db(r) the row of r's key carries r's value
\* in every non-key field (an absent value overwrites a stored one), is the
\* row that was there before if there was one, and its last_updated is the
\* time the gateway read, whatever the caller supplied.
C3_LastWriteWins ==
    (lastSave.called /\ lastSave.ok) =>
        /\ RowsOf(tenders, KeyOf(lastSave.arg)) # {}
        /\ \A r \in RowsOf(tenders, KeyOf(lastSave.arg)) :
              /\ \A c \in DOMAIN lastSave.arg \ {"last_updated"} :
                    r[c] = lastSave.arg[c]
              /\ r.last_updated = lastSave.stamp
              /\ \A b \in lastSave.before : b.id = r.id

\* a stored published_date was overwritten by an absent one, by a caller
\* that supplied its own last_updated
C3_Witness ==
    /\ lastSave.called /\ lastSave.ok
    /\ "last_updated" \in DOMAIN lastSave.arg
    /\ lastSave.arg.published_date = NULL
    /\ \E b \in lastSave.before :
          b.published_date # NULL /\ b.title # lastSave.arg.title


\* C4: when the store rejects a write (a constraint violation or the store
\* unavailable) inside a crawl, save_to_db gives False and raises nothing,
\* the table is what it was before the call, and the record loop stays in
\* the loop with every remaining record still to be processed and the count
\* unchanged.
C4_RejectedWriteIsNotFatal ==
    [][(lastSave'.called /\ ~lastSave'.ok) =>
          /\ lastSave'.result = "False"
          /\ tenders' = tenders
          /\ pc' = pc
          /\ pending' = Tail(pending)
          /\ count' = count]_vars

\* a write the store rejected for a constraint, with a record still to come
C4_Witness ==
    /\ lastSave.called /\ ~lastSave.ok
    /\ ~StoreAccepts(StampedData(lastSave.arg, 0))
    /\ pending # <<>>

\* C5: no adapter passes a record with an empty reference_no to save_to_db.
C5_NoEmptyReferenceSaved ==
    lastRaw.saved => Truthy(lastSave.arg.reference_no)

\* the title the adapter of source kind src finds in the raw record
RawTitle(src, raw) ==
    CASE src = "ungm_json" -> ExtractUngmField(raw, UngmTitleKeys)
      [] src = "ungm_html" -> raw.cells[2]
      [] src = "sam"       -> FirstTruthy(raw, <<"title", "subject">>)
      [] src = "ted"       -> Get(raw, "title")

\* C6: a raw record with no title under any recognised alias never reaches
\* save_to_db, whatever the source.
C6_NoTitleNeverSaved ==
    lastRaw.saved => Truthy(RawTitle(lastRaw.src, lastRaw.raw))

\* C7: crawl_all does not raise for a failure of a TED request (an
\* unexpected 4xx, transient errors after the retries, a transport
\* exception, an undecodable body, a failed field-projection retry).
C7_CrawlAllNeverRaises ==
    ~(pc = "raised" /\ raisedBy.src = "ted" /\ raisedBy.cause \in TedFailures)

\* C8: a crawl_all run in which crawl_ungm raised ends with the counts of
\* the SAM crawl and of the TED crawl.
C8_UngmFailureIsolated ==
    (pc \in {"raised", "returned"} /\ raisedBy.src = "ungm")
        => {"sam", "ted"} \subseteq DOMAIN result


----------------------------------------------------------------------------
(* Claims about build_query *)

RECURSIVE Str(_)
\* the text a sequence of characters spells
Str(s) ==
    IF s = <<>> THEN ""
    ELSE IF Len(s) = 1 THEN s[1]
    ELSE Str(SubSeq(s, 1, Len(s) \div 2)) \o Str(SubSeq(s, (Len(s) \div 2) + 1, Len(s)))

\* text s has sub at position i
StartsAt(s, sub, i) ==
    i >= 1 /\ i + Len(sub) - 1 <= Len(s) /\ SubSeq(s, i, i + Len(sub) - 1) = sub

\* how each clause opens, in the order date, country, CPV, keyword, form type
ClauseOpenings ==
    <<PublicationDate, <<"(">> \o PlaceCountry, <<"(">> \o ClassificationCpv,
      TitleOpen, FormTypeOpen>>

\* where the parts joined by " AND " begin
ClauseStarts(q) == {1} \cup {i + Len(And) : i \in {j \in 1..Len(q) : StartsAt(q, And, j)}}

\* the opening found at position i: 1 date .. 5 form type, 0 when none
RankAt(q, i) ==
    IF \E k \in 1..Len(ClauseOpenings) : StartsAt(q, ClauseOpenings[k], i)
    THEN CHOOSE k \in 1..Len(ClauseOpenings) : StartsAt(q, ClauseOpenings[k], i)
    ELSE 0

\* the parts joined by " AND " are clauses, the first is the date clause,
\* and they follow one another in the fixed order
FixedClauseOrder(q) ==
    /\ RankAt(q, 1) = 1
    /\ \A i \in ClauseStarts(q) : RankAt(q, i) >= 1
    /\ \A i, j \in ClauseStarts(q) : i < j => RankAt(q, i) < RankAt(q, j)
    /\ \A k \in 2..Len(ClauseOpenings) : \A i \in 1..Len(q) :
          StartsAt(q, ClauseOpenings[k], i) => i \in ClauseStarts(q)

FullExample ==
    [date_from |-> [type |-> "str", value |-> <<"2", "0", "2", "5", "-", "0", "6", "-", "1", "8">>],
     date_to |-> [type |-> "str", value |-> <<"2", "0", "2", "5", "-", "0", "9", "-", "1", "6">>],
     countries |-> <<<<"D", "E">>, <<"F", "R">>>>,
     cpv_prefixes |-> <<<<"3", "3", "*">>>>,
     keywords |-> <<<<"P", "C", "R">>, <<"r", "e", "a", "g", "e", "n", "t">>, <<"d", "i", "a", "g", "n", "o", "s", "t", "i", "c">>>>,
     form_types |-> <<<<"F", "1", "5">>>>]

FullExampleQuery ==
    "publication-date:[2025-06-18 TO 2025-09-16] AND ((place-of-performance.country:DE OR buyer-country:DE) OR (place-of-performance.country:FR OR buyer-country:FR)) AND (classification-cpv:33*) AND title:(PCR OR reagent OR diagnostic) AND form-type:(F15)"

\* C9: whatever the arguments, the clauses of the output of build_query
\* come in the order date, country, CPV, keyword, form type, joined by
\* " AND "; a further call with the same arguments gives the same output;
\* and for the full example the output is the stated text, character for
\* character.
C9_FixedOrderStableOutput ==
    /\ [](calls > 0 =>
            /\ FixedClauseOrder(query)
            /\ (args = FullExample => Str(query) = FullExampleQuery))
    /\ [][calls > 0 => query' = query]_vars

\* the full example has been built twice
C9_Witness ==
    /\ calls = 2
    /\ args = FullExample
    /\ Str(query) = FullExampleQuery

\* the group is absent, empty, or made of blank strings only
BlankGroup(name) ==
    \A i \in 1..Len(Arg(args, name)) : Strip(Arg(args, name)[i]) = <<>>

GroupNames == <<"countries", "cpv_prefixes", "keywords", "form_types">>

\* what only the clause of the group holds
GroupMarker(name) ==
    CASE name = "countries"    -> PlaceCountry
      [] name = "cpv_prefixes" -> ClassificationCpv
      [] name = "keywords"     -> TitleOpen
      [] name = "form_types"   -> FormTypeOpen

DatesOnlyQuery == "publication-date:[2025-06-18 TO 2025-09-16]"

\* C10: the output of build_query begins with the date clause; a group that
\* is absent, empty or all blank leaves nothing in it; it has no empty
\* parenthesis and no leading, trailing or doubled AND; and when every group
\* is blank it is the date clause and nothing else.
C10_BlankGroupsLeaveNothing ==
    calls > 0 =>
      /\ StartsAt(query, DateClause(args.date_from, args.date_to), 1)
      /\ StartsAt(query, PublicationDate, 1)
      /\ \A g \in 1..Len(GroupNames) :
            BlankGroup(GroupNames[g]) <=> ~Contains(query, GroupMarker(GroupNames[g]))
      /\ ~Contains(query, <<"(", ")">>)
      /\ ~StartsAt(query, <<" ", "A", "N", "D">>, 1) /\ ~StartsAt(query, <<"A", "N", "D", " ">>, 1)
      /\ ~StartsAt(query, <<" ", "A", "N", "D">>, Len(query) - 3) /\ ~StartsAt(query, <<"A", "N", "D", " ">>, Len(query) - 3)
      /\ ~Contains(query, <<"A", "N", "D", " ", "A", "N", "D">>) /\ ~Contains(query, <<"A", "N", "D", " ", " ", "A", "N", "D">>)
      /\ Cardinality(ClauseStarts(query)) =
            1 + Cardinality({g \in 1..Len(GroupNames) : ~BlankGroup(GroupNames[g])})
      /\ (\A g \in 1..Len(GroupNames) : BlankGroup(GroupNames[g]))
            => query = DateClause(args.date_from, args.date_to)
      /\ (DOMAIN args = {"date_from", "date_to"} /\ args.date_from.type = "str"
             /\ args.date_to.type = "str") => Str(query) = DatesOnlyQuery

\* a query built from one group not given, one given empty, one all blank
\* and one with a value
C10_Witness ==
    /\ calls > 0
    /\ "countries" \notin DOMAIN args
    /\ "cpv_prefixes" \in DOMAIN args /\ args.cpv_prefixes # <<>> /\ BlankGroup("cpv_prefixes")
    /\ "keywords" \in DOMAIN args /\ args.keywords = <<>>
    /\ ~BlankGroup("form_types")
    /\ args.date_from.type = "str" /\ args.date_to.type = "str"
    /\ Str(query) = "publication-date:[2025-06-18 TO 2025-09-16] AND form-type:(F15)"


----------------------------------------------------------------------------
(* Claims about iterate_all *)

\* the server's first answer without a continuation token, 0 when every
\* answer carries one
FirstWithoutToken(script) ==
    IF \E i \in 1..Len(script) : script[i].token = NULL
    THEN CHOOSE i \in 1..Len(script) :
            script[i].token = NULL /\ \A j \in 1..(i - 1) : script[j].token # NULL
    ELSE 0

\* C11: against a server that gives n answers with a continuation token and
\* then one without, iterate_all makes exactly n+1 search calls: it never
\* makes call n+2, it is exhausted after the notices of answer n+1 and not
\* before, and call i+1 carries the token of answer i.
C11_IterationEndsWithoutToken ==
    /\ FirstWithoutToken(it.script) > 0 =>
          /\ it.searches <= FirstWithoutToken(it.script)
          /\ it.state = "exhausted" => it.searches = FirstWithoutToken(it.script)
          /\ it.state = "search" => it.searches < FirstWithoutToken(it.script)
    /\ \A i \in 1..Len(it.sent) :
          it.sent[i] = IF i = 1 THEN NULL ELSE AnswerTo(it.script, i - 1).token

\* tokens A, B, none: exhausted after three search calls
C11_Witness ==
    /\ it.state = "exhausted"
    /\ Len(it.script) = 3
    /\ it.script[1].token = TokenA /\ it.script[2].token = TokenB
    /\ it.script[3].token = NULL
    /\ it.searches = 3
    /\ it.sent = <<NULL, TokenA, TokenB>>

----------------------------------------------------------------------------
(* Claims about the source crawls *)

\* C12: a TED search that the server rejects with a 400 naming an unsupported
\* field is followed by the retry with the default fields, whether it was the
\* search_once of page mode or a search of the iteration of iteration mode.
C12_UnsupportedFieldIsRetried ==
    (http.src = "ted" /\ http.kind \in {"search", "batch"}
        /\ http.outcome = "unsupported_field") => pc = "ted_retry"

\* neither SAM_API_KEY nor SAM_GOV_API_KEY holds a non-empty value
NoApiKeyIn(env) ==
    \A name \in {"SAM_API_KEY", "SAM_GOV_API_KEY"} :
        name \notin DOMAIN env \/ env[name] = EMPTY

\* C13: with no API key in the environment crawl_sam makes no HTTP request
\* and no save_to_db call, raises nothing and returns 0, and crawl_all goes on
\* to the wait before crawl_ted with the count of UNGM kept.
C13_NoKeyNoRequest ==
    [][(pc = "sam_start" /\ NoApiKeyIn(environ'.vars)) =>
          /\ http'.src = "none"
          /\ ~lastSave'.called /\ tenders' = tenders /\ upserted' = upserted
          /\ raisedBy'.src = "none"
          /\ result' = With(result, "sam", 0)
          /\ pc' = "sleep2"]_vars

\* crawl_sam has found SAM_API_KEY empty and SAM_GOV_API_KEY unset, and
\* crawl_all waits before crawl_ted
C13_Witness ==
    /\ environ.read /\ NoApiKeyIn(environ.vars)
    /\ DOMAIN environ.vars # {}
    /\ pc = "sleep2" /\ result["sam"] = 0 /\ "ungm" \in DOMAIN result

\* C14: crawl_sam makes a request only while it has made fewer than max_pages
\* of them, and after a page it asks for another one only if the page was
\* full, the advanced offset is below the total the server declared (if it
\* declared one) and fewer than max_pages pages have been fetched; the number
\* of requests made grows with every page, so the loop ends.
C14_SamPaginationStops ==
    [][/\ http'.src = "sam" => cur.requests < cur.max_pages
       /\ (pc = "sam_records" /\ pc' = "sam_fetch") =>
             /\ cur.got = cur.limit
             /\ cur.total # NULL => cur.offset + cur.limit < TotalRecords(cur.total)
             /\ cur.requests < cur.max_pages
             /\ cur'.offset = cur.offset + cur.limit
       /\ (pc = "sam_fetch" /\ pc' = "sam_records") =>
             cur'.requests = cur.requests + 1]_vars

\* the second and last allowed request has been answered with a full page
C14_Witness ==
    /\ pc = "sam_records" /\ http.src = "sam"
    /\ cur.max_pages = 2 /\ cur.requests = 2 /\ cur.got = cur.limit

\* the text holds the value of the API key
HoldsKey(text, key) == \E j \in 1..Len(text) : <<text[j]>> = key

\* C15: no message that crawl_sam logs holds the API key of the environment,
\* whichever way the request fails and whatever the error response holds.
C15_NoKeyInLog ==
    \A i \in 1..Len(log) : ~HoldsKey(log[i], Secret)

\* C17: a first UNGM search that ends with the 404 FileNotFound page is
\* followed by one re-bootstrap and one second search; the second search is
\* followed by no third, whatever its outcome; a first search that fails any
\* other way, and a failed retry, make crawl_ungm return 0 with no exception,
\* and crawl_all goes on to the wait before crawl_sam.
C17_OneRetryOnFileNotFound ==
    [][/\ (pc = "ungm_post" /\ http'.outcome = "file_not_found") =>
             (pc' = "ungm_retry" /\ http'.kind = "search" /\ cur'.posts = 1)
       /\ (pc = "ungm_post" /\ http'.outcome \in {"http_error", "request_exception"}) =>
             (pc' = "sleep1" /\ result' = With(result, "ungm", 0)
                /\ raisedBy'.src = "none")
       /\ pc' = "ungm_retry" => pc = "ungm_post"
       /\ pc = "ungm_retry" =>
             /\ http'.kind = "retry"
             /\ IF http'.outcome = "ok"
                THEN pc' = "ungm_parse" /\ cur'.posts = 2
                ELSE /\ pc' = "sleep1" /\ result' = With(result, "ungm", 0)
                     /\ raisedBy'.src = "none"]_vars

\* the second search, made after a FileNotFound page, has been answered
C17_Witness ==
    /\ pc = "ungm_parse" /\ cur.posts = 2
    /\ http = [src |-> "ungm", kind |-> "retry", outcome |-> "ok"]

\* some stretch of the lower-cased title is one of the tokens
TitleHoldsToken(keywords, title) ==
    \E i \in 1..Len(keywords) : \E a \in 1..Len(title) : \E b \in a..Len(title) :
        SubSeq(Lower(title), a, b) = keywords[i]

\* the step of the JSON loop or of the HTML loop for a raw record
UngmStep(kind, raw, keywords) ==
    IF kind = "ungm_json" THEN UngmJsonStep(raw, keywords) ELSE UngmHtmlStep(raw, keywords)

\* C18: in the JSON loop and in the HTML loop alike, a UNGM record reaches
\* save_to_db exactly when it would reach it with no tokens configured and,
\* if tokens are configured, its lower-cased title holds one of them.
C18_KeywordFilterByTitle ==
    [][(pc \in {"ungm_json", "ungm_html"} /\ pending # <<>>) =>
          (lastRaw'.saved <=>
              /\ UngmStep(pc, Head(pending), <<>>).do = "save"
              /\ cur.keywords = <<>>
                    \/ TitleHoldsToken(cur.keywords, RawTitle(pc, Head(pending))))]_vars

\* with a token configured, an HTML row whose title holds no token has been
\* dropped
C18_Witness ==
    /\ pc = "ungm_html" /\ cur.keywords # <<>>
    /\ lastRaw.src = "ungm_html" /\ ~lastRaw.saved
    /\ lastRaw.raw.cells[2] = Chair

\* the text the record holds under the alias, in any letter case of the key
UnderAlias(record, alias) ==
    LET named == {k \in DOMAIN record : KeyLower(k) = KeyLower(alias)}
    IN  IF named = {} THEN NULL
        ELSE NormaliseUngmValue(record[CHOOSE k \in named : TRUE])

\* the text under the first alias, in priority order, that holds one
FirstResolving(record, aliases) ==
    LET hits == {i \in 1..Len(aliases) : UnderAlias(record, aliases[i]) # NULL}
    IN  IF hits = {} THEN NULL
        ELSE UnderAlias(record, aliases[CHOOSE i \in hits : \A j \in hits : i <= j])

\* C19: a UNGM JSON record that holds a title and a reference under some
\* alias, in any letter case of the key, that passes the keyword filter and
\* whose dates parse, is handed to save_to_db with the title and the
\* reference of the first alias that holds a text, and with a detail URL
\* that is absolute if the record has one.
C19_AliasesAndAbsoluteUrl ==
    [][(/\ pc = "ungm_json" /\ pending # <<>>
        /\ FirstResolving(Head(pending), UngmTitleKeys) # NULL
        /\ FirstResolving(Head(pending), UngmReferenceKeys) # NULL
        /\ cur.keywords = <<>>
              \/ TitleHoldsToken(cur.keywords, FirstResolving(Head(pending), UngmTitleKeys))
        /\ ParseUngmDate(FirstResolving(Head(pending), UngmPublishedKeys)) # RAISES
        /\ ParseUngmDate(FirstResolving(Head(pending), UngmDeadlineKeys)) # RAISES) =>
          /\ lastRaw'.saved /\ lastSave'.called
          /\ lastSave'.arg.title = FirstResolving(Head(pending), UngmTitleKeys)
          /\ lastSave'.arg.reference_no = FirstResolving(Head(pending), UngmReferenceKeys)
          /\ lastSave'.arg.detail_url # NULL =>
                Head(lastSave'.arg.detail_url) = Head(UngmBase)]_vars

\* the texts a UNGM loop hands to _parse_ungm_date for a raw record
UngmDateTexts(kind, raw) ==
    IF kind = "ungm_json"
    THEN {ExtractUngmField(raw, UngmPublishedKeys), ExtractUngmField(raw, UngmDeadlineKeys)}
    ELSE IF Len(raw.cells) < 8 THEN {}
    ELSE {raw.cells[4], FirstWord(raw.cells[3])}

\* C20: _parse_ungm_date returns, a datetime or None, for every date text
\* of every record the UNGM loops take.
C20_DateParsingNeverRaises ==
    lastRaw.src \in {"ungm_json", "ungm_html"} =>
        \A text \in UngmDateTexts(lastRaw.src, lastRaw.raw) : ParseUngmDate(text) # RAISES

----------------------------------------------------------------------------
(* Claims about _bootstrap_ungm_tokens *)

\* the form token the answer of a URL yields to a session without a cookie
YieldsFormToken(response) ==
    response.kind = "page" /\ Truthy(ExtractUngmTokens(response, NULL).form_token)

\* C16: when the answer of at least one bootstrap URL yields a form token,
\* _bootstrap_ungm_tokens does not raise, whatever the other URL answers.
C16_TokenFoundMeansNoFailure ==
    (\E i \in 1..Len(boot.script) : YieldsFormToken(boot.script[i]))
        => boot.state # "raised"

----------------------------------------------------------------------------
(* Claims about the settings parsers *)

\* the override omits the field or gives a blank string for it
OmittedOrBlank(v) == v.type = "null" \/ (v.type = "str" /\ Strip(v.text) = <<>>)

\* the override omits the number or gives one that is not numeric or not positive
NoPositiveNumber(v) == ~IntOf(v).ok \/ IntOf(v).n <= 0

\* the settings proper: without a configuration every setting is the default,
\* and a setting the JSON object omits or gives an invalid value for is the default
SettingsKeepDefaults ==
    call.fn \in {"_parse_ted_config", "_parse_sam_config"} /\ call.returned =>
        LET default == IF call.fn = "_parse_ted_config"
                       THEN DefaultTedSettings ELSE DefaultSamSettings
            data    == call.config.data.entries
        IN  /\ call.config.kind = "none" => call.settings = default
            /\ IsDictConfig(call.config) =>
                 /\ \A key \in DOMAIN default \cap {"limit", "page", "max_pages"} :
                      IF NoPositiveNumber(JGet(data, key))
                      THEN call.settings[key] = default[key]
                      ELSE call.settings[key] = IntOf(JGet(data, key)).n
                 /\ \A key \in DOMAIN default \cap {"mode", "sort", "query", "keywords"} :
                      OmittedOrBlank(JGet(data, key)) => call.settings[key] = default[key]
                 /\ \A key \in DOMAIN default \ DOMAIN data :
                      (\A alias \in {"order", "sortBy", "postedFrom", "postedTo"} :
                          alias \notin DOMAIN data)
                        => call.settings[key] = default[key]

\* C21: the settings parsers merge field by field over the defaults: without a
\* configuration every field is the default, and with a partial override a
\* field the override omits or gives an invalid value for (a limit or page
\* that is not a positive number, a blank string) keeps its default; the
\* fields of the TED builder are among them
C21_FieldByFieldOverDefaults ==
    /\ SettingsKeepDefaults
    /\ call.fn = "_parse_ted_config" /\ call.returned =>
         /\ call.config.kind = "none" => call.builder = DefaultTedBuilder
         /\ IsDictConfig(call.config)
              /\ JGet(call.config.data.entries, "builder").type = "dict" =>
              \A key \in DOMAIN DefaultTedBuilder :
                  OmittedOrBlank(JGet(call.config.data.entries["builder"].entries, key))
                    => call.builder[key] = DefaultTedBuilder[key]

----------------------------------------------------------------------------
(* Claims about undecodable response bodies *)

\* C22: a response body that is no JSON where JSON is expected is caught and
\* logged and the crawl of that source returns 0: crawl_ungm, crawl_sam on
\* any page of its loop, crawl_ted in page mode and in iteration mode.
C22_DecodeErrorReturnsZero ==
    /\ log = <<UngmInvalidJsonLog>> =>
         (pc = "sleep1" /\ result["ungm"] = 0)
    /\ (http.src = "sam" /\ http.outcome = "invalid_json") =>
         (log = <<SamInvalidJsonLog>> /\ pc = "sleep2" /\ result["sam"] = 0)
    /\ (http.src = "ted" /\ http.outcome = "decode_error") =>
         (pc = "return" /\ result["ted"] = 0)

\* the part of it that holds: an undecodable body of UNGM, of a TED batch in
\* iteration mode and of the first page of SAM makes the crawl return 0
DecodeErrorReturnsZeroWhereCaught ==
    /\ log = <<UngmInvalidJsonLog>> =>
         (pc = "sleep1" /\ result["ungm"] = 0)
    /\ (http.src = "sam" /\ http.outcome = "invalid_json") =>
         (log = <<SamInvalidJsonLog>> /\ pc = "sleep2")
    /\ (http.src = "ted" /\ http.kind = "batch" /\ http.outcome = "decode_error") =>
         (pc = "return" /\ result["ted"] = 0)

----------------------------------------------------------------------------
(* Claims about the retry policies *)

\* of the attempt that takes the call from before to after: an answer of
\* status 429 or 5xx is followed by another attempt while fewer than 5
\* attempts were made and ends the call with an exception at the 5th, and
\* no other status that is not a success is followed by another attempt
RetriedAsClaimed(before, after) ==
    LET answer   == after.received[Len(after.received)]
        attempts == Len(after.received)
    IN  ~answer.error =>
          /\ (answer.status = 429 \/ answer.status \in 500..599) =>
               after.state = IF attempts < 5 THEN "calling" ELSE "raised"
          /\ (answer.status \notin {200, 429} \cup 500..599) =>
               after.state # "calling"

\* C23: a request answered with 429 or any 5xx is sent again, up to 5
\* attempts, and then fails; a request answered with another status that is
\* no success is not sent again; for _perform_request of the TED client and
\* for the session of the crawler alike.
C23_TransientRetriedUpToFive ==
    [][(call.fn \in {"_perform_request", "session.request"}
          /\ call.state = "calling" /\ call' # call)
        => RetriedAsClaimed(call, call')]_vars

\* the part of it that holds: _perform_request under the retry of the
\* tenacity package
PerformRequestRetriedAsClaimed ==
    [][(call.fn = "_perform_request" /\ call.tenacity
          /\ call.state = "calling" /\ call' # call)
        => RetriedAsClaimed(call, call')]_vars

----------------------------------------------------------------------------
(* Claims about the life of a Tender row *)

KeysOf(table) == {<<r.site, r.reference_no>> : r \in table}

\* C24: no step of a crawl deletes a Tender row: a (site, reference_no) key
\* that is stored before a step is stored after it, so the set of stored keys
\* only grows.
C24_StoredKeysOnlyGrow == [][KeysOf(tenders) \subseteq KeysOf(tenders')]_vars

\* a crawl has written a record while a row of another key was stored
C24_Witness ==
    /\ pc # "idle"
    /\ lastSave.called /\ lastSave.ok
    /\ \E k \in KeysOf(tenders) : k # KeyOf(lastSave.arg)

----------------------------------------------------------------------------
(* Claims about the order in which iterate_all asks and yields *)

RECURSIVE Received(_, _)
\* the records of the first n answers of the server, in the order received
Received(script, n) ==
    IF n = 0 THEN <<>>
    ELSE Received(script, n - 1) \o AnswerTo(script, n).payload.results

\* the continuation token the n-th answer carries, none before the first
TokenOfAnswer(script, n) ==
    IF n = 0 THEN NULL ELSE ExtractIterationToken(AnswerTo(script, n).payload)

\* C25: iterate_all is lazy and forward-only: what it has yielded, followed by
\* what is left of the batch at hand, is at every moment the records of the
\* answers received so far in server order (none dropped, none twice); it
\* sends a request only when every record of the answers before was handed
\* to the consumer; and each request carries the token of the answer just
\* before it, never an earlier one.
C25_LazyForwardOnly ==
    [][/\ it'.out \o it'.batch = Received(it'.script, it'.searches)
       /\ it'.searches # it.searches =>
            /\ it'.searches = it.searches + 1
            /\ it.out = Received(it.script, it.searches)
            /\ it'.out = it.out
            /\ it'.sent = Append(it.sent, TokenOfAnswer(it.script, it.searches))]_vars

\* the iteration ended after three requests, and one of the batches held
\* more than one notice
C25_Witness ==
    /\ it.state = "exhausted" /\ it.searches = 3
    /\ Len(it.out) > 3

----------------------------------------------------------------------------
(* Claims about _request_with_iteration_token *)

\* C26: with a continuation token the request is tried under the parameter
\* names page-token, next-page-token, iteration-token and at last page, in
\* that order; a further name is tried only after the name before was
\* rejected with status 400 or 422; and nothing is tried after a success.
C26_TokenParamsInFixedOrder ==
    [][(call.fn = "_request_with_iteration_token" /\ call' # call) =>
         LET attempt == Len(call'.tried)
         IN  /\ call.state = "calling"
             /\ call'.tried = Append(call.tried, call'.tried[attempt])
             /\ Truthy(call.iteration_token) =>
                  /\ call'.tried[attempt].token_param =
                       <<"page-token", "next-page-token", "iteration-token", "page">>[attempt]
                  /\ attempt > 1 =>
                       /\ call.tried[attempt - 1].outcome.kind = "TedHTTPError"
                       /\ call.tried[attempt - 1].outcome.status \in {400, 422}
             /\ call'.tried[attempt].outcome.kind = "return" => call'.state = "returned"]_vars

\* three names were rejected with 400 or 422 and the request under "page"
\* succeeded
C26_Witness ==
    /\ call.fn = "_request_with_iteration_token" /\ call.state = "returned"
    /\ Len(call.tried) = 4
    /\ call.tried[4].token_param = "page"

\* C27: when the attempts under all four parameter names, the final "page"
\* among them, fail with a status of a client error, the error that leaves
\* the function is the error of the first attempt.
C27_FirstErrorSurfaces ==
    (/\ call.fn = "_request_with_iteration_token" /\ call.state = "raised"
     /\ Truthy(call.iteration_token)
     /\ Len(call.tried) = Len(TokenParams)
     /\ \A i \in 1..Len(call.tried) :
           /\ call.tried[i].outcome.kind = "TedHTTPError"
           /\ call.tried[i].outcome.status \in 400..499)
        => call.raised = 1

----------------------------------------------------------------------------
(* Claims about the order of crawl_all *)

\* the source whose crawl the statement belongs to
SourceOf(p) ==
    CASE p \in {"ungm_config", "ungm_boot", "ungm_post", "ungm_retry", "ungm_parse",
                "ungm_json", "ungm_html"}                  -> "ungm"
      [] p \in {"sam_start", "sam_fetch", "sam_records"}    -> "sam"
      [] p \in {"ted_start", "ted_exec", "ted_retry", "ted_records"} -> "ted"
      [] OTHER -> "none"

\* C28: in a run of crawl_all the sources are crawled one after another in
\* the order UNGM, SAM, TED: the crawl of UNGM starts the run, the crawl of
\* SAM is entered only from the pause that follows the return of crawl_ungm,
\* the crawl of TED only from the pause that follows the return of
\* crawl_sam, a pause is entered only by the return of the crawl before it,
\* and every request is made by the one source whose crawl is running.
C28_SourcesInOrder ==
    [][/\ (SourceOf(pc') = "ungm" /\ SourceOf(pc) # "ungm") =>
            (pc \in {"idle", "returned", "raised"} /\ result' = <<>>)
       /\ (SourceOf(pc') = "sam" /\ SourceOf(pc) # "sam") =>
            (pc = "sleep1" /\ DOMAIN result = {"ungm"})
       /\ (SourceOf(pc') = "ted" /\ SourceOf(pc) # "ted") =>
            (pc = "sleep2" /\ DOMAIN result = {"ungm", "sam"})
       /\ (pc' = "sleep1" /\ pc # "sleep1") =>
            (SourceOf(pc) = "ungm" /\ DOMAIN result' = {"ungm"})
       /\ (pc' = "sleep2" /\ pc # "sleep2") =>
            (SourceOf(pc) = "sam" /\ DOMAIN result' = {"ungm", "sam"})
       /\ http'.src # "none" => http'.src = SourceOf(pc)]_vars

\* a run has returned in which every source made a request and UNGM and TED
\* saved records
C28_Witness ==
    /\ pc = "returned"
    /\ DOMAIN result = {"ungm", "sam", "ted"}
    /\ result["ungm"] > 0 /\ result["ted"] > 0

----------------------------------------------------------------------------
(* Claims about the loop of _bootstrap_ungm_tokens *)

\* the answer to the GET of this round is the 404 FileNotFound page
PlaceholderAtHand ==
    /\ boot.state = "get"
    /\ boot.script[boot.at].kind = "http_error"
    /\ boot.script[boot.at].status = 404 /\ boot.script[boot.at].file_not_found

\* C29: a bootstrap URL answered with the 404 FileNotFound page is skipped:
\* the tokens held and the cookies of the session stay what they were, the
\* function does not raise in that round, and the loop goes to the next URL
\* (after the last URL, to the statements after the loop).
C29_PlaceholderIsSkipped ==
    [][(PlaceholderAtHand /\ boot' # boot) =>
         /\ boot'.verification_token = boot.verification_token
         /\ boot'.verification_cookie = boot.verification_cookie
         /\ boot'.jar = boot.jar
         /\ boot'.state # "raised"
         /\ IF boot.at < Len(BootstrapUrls)
            THEN boot'.state = "get" /\ boot'.at = boot.at + 1
            ELSE boot'.state = "after_loop"]_vars

\* the referer URL gave the placeholder and the tokens came from the search URL
C29_Witness ==
    /\ boot.state = "returned"
    /\ boot.script[1] = ErrorPage(404, TRUE)
    /\ boot.script[2] = Page(FormA, CookieA, NULL)
    /\ boot.verification_token = FormA /\ boot.verification_cookie = CookieA

\* C30: the bootstrap asks the referer URL first and the search URL second;
\* a round that leaves both a form token and a cookie token held ends the
\* loop, so that no later URL is asked; a round on a page that leaves one of
\* them missing goes on to the next URL, and a token that is held is kept
\* whatever a later page holds, while a missing one is taken from the page.
C30_InOrderUntilBothFound ==
    [][(boot.state = "get" /\ boot' # boot) =>
         LET response == boot.script[boot.at]
             held     == Truthy(boot'.verification_token)
                            /\ Truthy(boot'.verification_cookie)
         IN  /\ boot'.at \in {boot.at, boot.at + 1}
             /\ boot'.state = "get" => boot'.at = boot.at + 1
             /\ boot.at = 1 => ~Truthy(boot.verification_token)
             /\ response.kind = "page" =>
                  /\ boot'.state = IF held \/ boot.at = Len(BootstrapUrls)
                                   THEN "after_loop" ELSE "get"
                  /\ held => boot'.at = boot.at
                  /\ boot'.verification_token =
                       IF Truthy(boot.verification_token) THEN boot.verification_token
                       ELSE IF Truthy(ExtractUngmTokens(response, boot.jar).form_token)
                       THEN ExtractUngmTokens(response, boot.jar).form_token
                       ELSE boot.verification_token
                  /\ boot'.verification_cookie =
                       IF Truthy(boot.verification_cookie) THEN boot.verification_cookie
                       ELSE IF Truthy(ExtractUngmTokens(response, boot.jar).cookie_token)
                       THEN ExtractUngmTokens(response, boot.jar).cookie_token
                       ELSE boot.verification_cookie]_vars

\* the form token of the referer page was kept although the search page
\* held another one, and the cookie token came from the search page
C30_Witness ==
    /\ boot.state = "returned" /\ boot.at = 2
    /\ boot.script[1] = Page(FormB, NULL, NULL)
    /\ boot.script[2] = Page(FormA, CookieA, NULL)
    /\ boot.verification_token = FormB /\ boot.verification_cookie = CookieA

----------------------------------------------------------------------------
(* Claims about _post_ungm_search *)

\* of the POST that takes the call from before to after: its payload holds
\* the form token; with a cookie token the first POST carries the header
\* cookie-token:form-token and the second the form token alone; and a first
\* POST for which failed holds is followed by a second
FallsBackWhen(before, after, failed) ==
    LET attempt == Len(after.sent)
        post    == after.sent[attempt]
    IN  /\ after.sent = Append(before.sent, post)
        /\ post.payload_token = before.verification_token
        /\ Truthy(before.verification_cookie) =>
             /\ attempt = 1 =>
                  post.header = before.verification_cookie \o <<":">>
                                    \o before.verification_token
             /\ attempt = 2 => post.header = before.verification_token
             /\ (attempt = 1 /\ failed) => after.state = "calling"

\* C31: with a cookie token _post_ungm_search first sends the POST with the
\* header cookie-token:form-token and, if that attempt fails (its response
\* is not ok), sends a second POST with the form token alone; the payload of
\* every POST holds the form token.
C31_FallsBackToFormToken ==
    [][(call.fn = "_post_ungm_search" /\ call' # call) =>
         FallsBackWhen(call, call',
             LET response == call'.sent[Len(call'.sent)].response
             IN  ~response.raises /\ ~ResponseOk(response))]_vars

\* the part of it that holds: the second POST follows a first one that was
\* answered with the 404 FileNotFound page
FallsBackOnFileNotFound ==
    [][(call.fn = "_post_ungm_search" /\ call' # call) =>
         FallsBackWhen(call, call',
             LET response == call'.sent[Len(call'.sent)].response
             IN  ~response.raises /\ response.status = 404
                    /\ response.file_not_found)]_vars

----------------------------------------------------------------------------
(* Claims about the classification of a UNGM response *)

\* the body as text: the characters of a str, the characters the bytes spell
Spells(text) ==
    IF text.type = "str" THEN text.chars
    ELSE [i \in 1..Len(text.codes) |->
             CASE text.codes[i] = 123 -> "{" [] text.codes[i] = 91 -> "["
               [] text.codes[i] = 32 -> " " [] text.codes[i] = 10 -> "\n"
               [] OTHER -> "?"]

\* the first character of the text that is no whitespace is one of marks
FirstNonWhitespaceIn(text, marks) ==
    \E i \in 1..Len(text) :
        /\ text[i] \in marks
        /\ \A j \in 1..(i - 1) : text[j] \in {" ", "\n", "\t"}

\* the Content-Type header says JSON
SaysJson(content_type) ==
    content_type \in {<<"a", "p", "p", "l", "i", "c", "a", "t", "i", "o", "n", "/", "j", "s", "o", "n">>, <<"A", "p", "p", "l", "i", "c", "a", "t", "i", "o", "n", "/", "J", "S", "O", "N", ";", " ", "c", "h", "a", "r", "s", "e", "t", "=", "u", "t", "f", "-", "8">>}

\* C32: a UNGM search response is classified once, as JSON or as HTML: JSON
\* when the Content-Type says JSON or the first character of the body that
\* is no whitespace is '{' or '[', whether the body is a str or bytes, and
\* HTML in every other case.
C32_JsonByHeaderOrFirstCharacter ==
    (call.fn = "classify_ungm_response" /\ call.state = "parsed") =>
        call.parsed_as =
            <<IF SaysJson(call.response.content_type)
                   \/ FirstNonWhitespaceIn(Spells(call.response.text), {"{", "["})
              THEN "json" ELSE "html">>

\* a body of bytes that opens with whitespace and '{', served as text/html,
\* was parsed as JSON
C32_Witness ==
    /\ call.fn = "classify_ungm_response" /\ call.state = "parsed"
    /\ call.response.content_type = <<"t", "e", "x", "t", "/", "h", "t", "m", "l">>
    /\ call.response.text = [type |-> "bytes", codes |-> <<10, 123, 120>>]
    /\ call.parsed_as = <<"json">>

----------------------------------------------------------------------------
(* Claims about the extraction of raw records *)

\* the list under the first of results, items, notices, data that holds a
\* list, and no records when none does
ByPriority(payload) ==
    CASE "results" \in DOMAIN payload /\ payload["results"].list -> payload["results"].records
      [] "items" \in DOMAIN payload /\ payload["items"].list     -> payload["items"].records
      [] "notices" \in DOMAIN payload /\ payload["notices"].list -> payload["notices"].records
      [] "data" \in DOMAIN payload /\ payload["data"].list       -> payload["data"].records
      [] OTHER -> <<>>

\* the part that holds: _extract_results follows the priority order
TedExtractionByPriority ==
    (call.fn = "_extract_results" /\ call.state = "returned")
        => call.records = ByPriority(call.payload)

\* C33: the records taken from a payload are the list under the first of the
\* keys results, items, notices, data whose value is a list, and none when no
\* such key holds a list; the TED extraction and the UNGM JSON extraction
\* both follow this order.
C33_ContainerKeysByPriority ==
    /\ TedExtractionByPriority
    /\ (call.fn = "_process_ungm_json" /\ call.state = "returned"
            /\ call.payload.type = "dict")
          => call.records = ByPriority(call.payload.entries)


----------------------------------------------------------------------------
(* Quoting of keyword tokens in build_query.                               *)

\* the token as the keyword clause is said to carry it
QuotedWhenWhitespaceOrColon(token) ==
    IF \E i \in 1..Len(token) : token[i] \in Whitespace \cup {":"}
    THEN Quote \o token \o Quote
    ELSE token

\* the title clause over the stripped, non-blank keywords
TitleClauseOf(tokens) == TitleOpen \o Join(Or, tokens) \o <<")">>

\* how often sub occurs in s
Occurrences(s, sub) ==
    Cardinality({i \in 1..(Len(s) - Len(sub) + 1) : SubSeq(s, i, i + Len(sub) - 1) = sub})

\* C34: every keyword token that contains a whitespace character (a tab or
\* a newline as well as a space) or a colon is wrapped in double quotes,
\* every other token is left as it is, and the tokens are OR-ed inside one
\* single title:(...) clause of the query.
C34_WhitespaceOrColonQuoted ==
    (query # NULL /\ StrippedNonBlank(Arg(args, "keywords")) # <<>>) =>
        LET tokens == StrippedNonBlank(Arg(args, "keywords"))
            quoted == [i \in 1..Len(tokens) |-> QuotedWhenWhitespaceOrColon(tokens[i])]
        IN  /\ Contains(query, TitleClauseOf(quoted))
            /\ Occurrences(query, TitleOpen) = 1

\* the same for keyword lists whose tokens hold no tab and no newline
SpaceOrColonQuoted ==
    (/\ query # NULL
     /\ StrippedNonBlank(Arg(args, "keywords")) # <<>>
     /\ \A i \in 1..Len(StrippedNonBlank(Arg(args, "keywords"))) :
            \A j \in 1..Len(StrippedNonBlank(Arg(args, "keywords"))[i]) :
                StrippedNonBlank(Arg(args, "keywords"))[i][j] \notin {"\t", "\n"}) =>
        LET tokens == StrippedNonBlank(Arg(args, "keywords"))
            quoted == [i \in 1..Len(tokens) |-> QuotedWhenWhitespaceOrColon(tokens[i])]
        IN  /\ Contains(query, TitleClauseOf(quoted))
            /\ Occurrences(query, TitleOpen) = 1


----------------------------------------------------------------------------
(* Two overlapping runs writing the same key.                              *)

\* the row carries every field of the write w
RowOfWrite(r, w) == \A c \in DOMAIN w : r[c] = w[c]

\* C35: while two crawl_all runs overlap and their upserts interleave in any
\* order, the table holds exactly one row for every key a save_to_db call
\* has committed, and that row carries all the fields of one of the
\* committed writes for the key: never some fields of one write and some of
\* another.
C35_OverlappingUpsertsKeepRowsWhole ==
    call.fn = "crawl_all" =>
        /\ \A k \in upserted :
              /\ Cardinality(RowsOf(tenders, k)) = 1
              /\ \A r \in RowsOf(tenders, k) :
                    \E w \in call.committed : KeyOf(w) = k /\ RowOfWrite(r, w)
        /\ \A r \in tenders : KeyOf(r) \in upserted

\* both runs have committed a write for the same key with other fields, and
\* the row is the write that was stamped first: the two calls interleaved
C35_Witness ==
    /\ call.fn = "crawl_all"
    /\ \A t \in Triggers : call.runs[t].at = "idle" /\ call.runs[t].saved >= 1
    /\ \E v, w \in call.committed :
          /\ KeyOf(v) = KeyOf(w)
          /\ v.title # w.title /\ v.published_date # w.published_date
          /\ v.last_updated < w.last_updated
          /\ \E r \in tenders : RowOfWrite(r, v)


----------------------------------------------------------------------------
(* An explicit TED query and builder overrides.                            *)

\* the configuration gives a query of its own
ExplicitQuery(data) == NonBlankStr(JGet(data, "query"))

\* an explicit query is the query of the crawl, with builder overrides or not
ExplicitQueryWins ==
    (call.fn = "_parse_ted_config" /\ call.returned /\ IsDictConfig(call.config)) =>
        (ExplicitQuery(call.config.data.entries) =>
            SearchQuery(call.settings) = call.config.data.entries["query"].text)

\* C36: when a TED configuration gives both a query and builder overrides,
\* the query of the crawl is the explicit query; when it gives builder
\* overrides and no query, the query of the crawl is the one built from the
\* builder merged over the defaults.
C36_QueryThenMergedBuilder ==
    /\ ExplicitQueryWins
    /\ (call.fn = "_parse_ted_config" /\ call.returned /\ IsDictConfig(call.config)) =>
         ((/\ ~ExplicitQuery(call.config.data.entries)
           /\ JGet(call.config.data.entries, "builder").type = "dict") =>
             SearchQuery(call.settings) = BuildQueryFromBuilder(call.builder))


----------------------------------------------------------------------------
(* The counts the source crawls return.                                    *)

\* the step ends crawl_<src> with a return value
ReturnsNow(src) == src \notin DOMAIN result /\ src \in DOMAIN result'

\* count is the number of save_to_db calls of the running crawl that have
\* returned True: it grows by one with such a call and at no other step
CountsSuccessfulSaves ==
    /\ (count' # count /\ count' # 0) =>
          (count' = count + 1 /\ lastSave'.called /\ lastSave'.ok)
    /\ (lastSave'.called /\ lastSave'.ok /\ pc' = pc) => count' = count + 1

\* what crawl_<src> returns is the number of its successful saves
ReturnsSuccessfulSaves(sources) ==
    \A src \in sources : ReturnsNow(src) => result'[src] = count

\* C37: the count a source crawl returns is the number of save_to_db calls
\* that returned True during that crawl (a record skipped, dropped or not
\* written is not counted), and the result of crawl_all holds the three
\* values the crawls returned.
C37_ReturnedCountIsSuccessfulSaves ==
    [][/\ CountsSuccessfulSaves
       /\ ReturnsSuccessfulSaves({"ungm", "sam", "ted"})
       /\ pc' = "returned" => DOMAIN result' = {"ungm", "sam", "ted"}]_vars

\* the same for crawl_ungm and crawl_sam alone
UngmAndSamReturnSuccessfulSaves ==
    [][/\ CountsSuccessfulSaves
       /\ ReturnsSuccessfulSaves({"ungm", "sam"})
       /\ pc' = "returned" => DOMAIN result' = {"ungm", "sam", "ted"}]_vars


----------------------------------------------------------------------------
(* The requests of one crawl_ungm run.                                     *)

UngmRequestSteps == {"bootstrap", "search", "retry_bootstrap", "retry_search",
                     "response", "return_0"}

\* C38: one crawl_ungm run issues a bounded number of requests: a
\* _post_ungm_search call sends at most two POSTs, and exactly one when the
\* bootstrap gave no cookie token; a bootstrap sends at most two GETs; the
\* crawl makes at most two bootstraps and two search calls.
C38_UngmRequestsBounded ==
    pc \in UngmRequestSteps =>
        /\ cur.posts <= 2
        /\ (call.fn = "_post_ungm_search" /\ call.state # "calling"
              /\ ~Truthy(call.verification_cookie)) => cur.posts = 1
        /\ cur.gets <= 2
        /\ cur.bootstraps <= 2
        /\ cur.searches <= 2

\* the crawl ends after two bootstraps of two GETs each and two search
\* calls, the second with two POSTs
C38_Witness ==
    /\ pc \in {"response", "return_0"}
    /\ cur = [bootstraps |-> 2, searches |-> 2, gets |-> 2, posts |-> 2]


----------------------------------------------------------------------------
(* What ends iterate_all.                                                  *)

\* the continuation token the server gave with its latest answer
LatestToken == AnswerTo(it.script, it.searches).token

\* C39: iterate_all stops on a response without a continuation token and on
\* nothing else: when the notices of a response that carries a token are
\* used up it goes on to a further request, made with exactly that token,
\* however many batches came before and whether or not the token was seen
\* before; it is exhausted only after a response without a token.
C39_StopsOnlyWithoutToken ==
    [][/\ (it.state = "yield" /\ it.batch = <<>> /\ it' # it) =>
            IF LatestToken # NULL
            THEN it'.state = "search" /\ it'.iteration_token = LatestToken
            ELSE it'.state = "exhausted"
       /\ (it.state = "search" /\ it' # it) =>
            /\ it'.searches = it.searches + 1
            /\ it'.sent = Append(it.sent, it.iteration_token)
       /\ (it'.state = "exhausted" /\ it.state # "exhausted") => LatestToken = NULL]_vars

\* the server gave the same token twice and the iteration went on with it
\* both times, until an answer without a token
C39_Witness ==
    /\ it.state = "exhausted"
    /\ it.sent = <<NULL, TokenA, TokenA>>


----------------------------------------------------------------------------
(* The rows save_to_db leaves alone.                                       *)

\* C40: save_to_db(r) changes at most the row of (r.site, r.reference_no):
\* every row stored under another key is in the table after the call as it
\* was before, whether the call returns True or False, and a call that
\* returns False changes no row at all.
C40_OtherKeysUntouched ==
    [][lastSave'.called =>
         /\ \A r \in tenders \cup tenders' :
               KeyOf(r) # KeyOf(lastSave'.arg) => (r \in tenders /\ r \in tenders')
         /\ ~lastSave'.ok => tenders' = tenders]_vars

\* the last call rewrote the title of a stored row while a row under
\* another key was in the table
C40_Witness ==
    /\ lastSave.called /\ lastSave.ok
    /\ \E b \in lastSave.before : b.title # lastSave.arg.title
    /\ \E r \in tenders : KeyOf(r) # KeyOf(lastSave.arg)

============================================================================
